---- MODULE Spec2Model ----
(***************************************************************************)
(* Model of the Spotify service of vibify: the gateway makeSpotifyApiCall  *)
(* (rate-limit-aware variant, and the variant that also caches results),   *)
(* the token refresh paths and the credential rows they read and write;    *)
(* and the service methods built on the gateway: getUser with its profile  *)
(* cache, the month scan findLikedFromMonth, the batched                    *)
(* addTracksToPlaylistAndRetrieve, createRecommendationPlaylist, getTracks, *)
(* getArtistGenres, authorizationCodeGrant and deleteUser,                  *)
(* addTracksToPlaylistInBackground, filterTracksByGenre, getAudioFeatures, *)
(* the database-backed findLikedFromMonth and deleteIfNotLiked.            *)
(* Calls are the concurrent async invocations of makeSpotifyApiCall on the *)
(* one shared service instance; a step of a call is the code that runs     *)
(* between two awaits.                                                      *)
(***************************************************************************)
EXTENDS Integers, Sequences, FiniteSets, TLC

\* ---------------------------------------------------------------- bounds
MaxTicks == 2
MaxFailures == 2
MaxExchanges == 2
MaxTracks == 4
MaxUris == 5
DaysPerMonth == 2
\* the page and batch size MAX of utils/constants.js, scaled down
MAX == 2
MaxSource == 6
MaxTotal == 5
MaxOffset == 12
MaxGenreCalls == 3
MaxCredOps == 2
MaxLiked == 3
MaxIds == 5
MaxFeatureCalls == 4
MaxPages == 2
MaxSaved == 2
MaxLikes == 1
\* the batch size limit = 100 of getAudioFeatures, scaled down
FeatureLimit == 2

Calls == {"c1", "c2"}
Users == {"u1", "u2"}
RetryAfters == {1, 2}

\* ------------------------------------------------------ program constants
TokenExpirationTime == 3600
CacheTTL == 3600
ArtistTTL == 3600
ChunkSize == 100

\* ------------------------------------------------------------ operations
\* The upstream operations handed to the gateway; SideEffects are the ones
\* that change upstream state.
ReadOps == {"getPlaylist"}
SideEffects == {"createPlaylist", "addTracksToPlaylist"}
Operations == ReadOps \cup SideEffects

NoRow == [none |-> TRUE]
NoTok == [at |-> -1, rt |-> -1]
NoEntry == [none |-> TRUE]
NoResult == "none"
NoResponse == [user |-> "none", op |-> "none"]
Null == [null |-> TRUE]

\* the run starts when the service has been up for one token lifetime
StartTime == TokenExpirationTime
MaxTime == StartTime + MaxTicks

VARIABLES
    now,               \* Date.now(), in seconds
    db,                \* the users table: user_id -> row or NoRow
    client,            \* this.spotifyApi access / refresh token
    isRateLimited,     \* this.isRateLimited
    rateLimitPromise,  \* this.rateLimitPromise: a timer id, 0 for null / undefined
    timers,            \* the setTimeout promises created on a 429
    apiCallCount,      \* this.apiCallCount
    issued,            \* the answers of the token endpoint so far, in order
    caching,           \* TRUE: the variant that caches results in redis
    cache,             \* redis: key -> entry or NoEntry
    calls,             \* per call: position and locals
    hist,              \* per call: what it has done so far (observation only)
    obs,               \* observations over the whole run
    userCalls,         \* per call of getUser: position and locals
    scan,              \* the running findLikedFromMonth: position and locals
    mat,               \* the running addTracksToPlaylistAndRetrieve
    rec,               \* the running createRecommendationPlaylist
    trackCall,         \* the running getTracks
    genres,            \* getArtistGenres: the artists tables, the cache, the call
    cred,              \* the running authorizationCodeGrant or deleteUser
    bg,                \* the running addTracksToPlaylistInBackground
    flt,               \* the running filterTracksByGenre
    af,                \* the running getAudioFeatures
    gt,                \* this.tracks, this.filteredTracks and the concurrent getTracks calls
    lk                 \* the liked_tracks table and the calls that read and write it

\* the state of the gateway, and the state of the service methods built on it
gwVars == <<now, db, client, isRateLimited, rateLimitPromise, timers, apiCallCount,
            issued, caching, cache, calls, hist, obs>>
moreVars == <<flt, af, gt, lk>>
otherVars == <<trackCall, genres, cred, bg, moreVars>>
svcVars == <<userCalls, scan, mat, rec, trackCall, genres, cred, bg, moreVars>>
vars == <<now, db, client, isRateLimited, rateLimitPromise, timers, apiCallCount,
          issued, caching, cache, calls, hist, obs, userCalls, scan, mat, rec,
          trackCall, genres, cred, bg, flt, af, gt, lk>>

\* ------------------------------------------------------------ pure helpers

\* crypto.createHash('sha256').update(id + access_token).digest('hex'): a value
\* that tells apart any two inputs of the model, and gives back neither
Sha256(id, access_token) == <<"sha256", id, access_token>>

\* currentTime - tokenIssuedTime >= tokenExpirationTime
Expired(row, t) == t - row.upd >= TokenExpirationTime

\* refreshAccessToken's return value for the k-th exchange answer:
\* { access_token, refresh_token: data.refresh_token || refreshToken }
RefreshedTokens(refreshToken, k, rotated) ==
    [at |-> k, rt |-> IF rotated THEN k ELSE refreshToken]

\* a timer that may run its callback before the delay has passed
TimerDueAnyTime(t) == TRUE
\* setTimeout(resolve, retryAfter): never before the delay has passed
TimerDue(t) == now >= timers[t].deadline

\* a promise is settled: null / undefined is not a promise, await goes on
Resolved(p) == p = 0 \/ timers[p].fired

\* a catch block that rethrows a 429 instead of waiting
CatchBranchThrow429(e) == IF e = "429" THEN "throw" ELSE "refresh"
\* the catch block's dispatch on the error: error.statusCode === 429
CatchBranch(e) == IF e = "429" THEN "backoff" ELSE "refresh"

\* `spotifyApiCall:${id}:${apiCall.name}`: every call site passes an anonymous
\* arrow function, whose name is the empty string
FunctionName(o) == ""
CacheKey(id, o) == <<"spotifyApiCall", id, FunctionName(o)>>

JSONStringify(v) == <<"json", v>>
JSONParse(s) == s[2]

\* redis GET: the value, or null once the entry has expired
RedisGet(k) ==
    IF cache[k] = NoEntry \/ now >= cache[k].exp THEN NoEntry ELSE cache[k]

\* const cacheKey = `user:${id}` of getUser
UserKey(id) == <<"user", id>>

\* `artist:${id}:genres` of getArtistGenres
Artists == {"x", "y"}
ArtistKey(a) == <<"artist", a, "genres">>

Keys ==
    {CacheKey(u, o) : u \in Users, o \in Operations} \cup {UserKey(u) : u \in Users}
        \cup {ArtistKey(a) : a \in Artists}

\* a SETEX whose time-to-live is taken for milliseconds
SetexMillis(k, ttl, v) == [cache EXCEPT ![k] = [val |-> v, exp |-> now + ttl * 1000]]
\* redis.setex(key, ttl, value): the value, expiring ttl seconds from now
Setex(k, ttl, v) == [cache EXCEPT ![k] = [val |-> v, exp |-> now + ttl]]

PendingTimers == {t \in 1..Len(timers) : ~timers[t].fired}

\* the waits whose retry-after has not yet passed
RunningWaits == {t \in 1..Len(timers) : now < timers[t].deadline}

\* ------------------------------------------------------------------ Init
InitCall ==
    [pc |-> "idle", uid |-> "u1", op |-> "getPlaylist", usr |-> NoRow,
     rtIn |-> -1, tok |-> NoTok, wait |-> 0, result |-> NoResult, val |-> NoResponse]

InitHist ==
    [ops |-> 0, exch |-> 0, fails |-> 0, n429 |-> 0, notBefore |-> 0,
     gate |-> {}, xfail |-> <<>>, fromCache |-> FALSE,
     expired |-> FALSE, passExch |-> 0, passWrites |-> 0]

\* no getUser, month scan, playlist materialization or recommendation under way
InitUserCall ==
    [pc |-> "idle", uid |-> "u1", user |-> NoRow, tok |-> NoTok, result |-> NoResult,
     ret |-> Null, hit |-> FALSE, seen |-> NoEntry, readAt |-> 0,
     storedAt |-> 0, stored |-> NoEntry]
NoScan == [pc |-> "idle"]
NoMat == [pc |-> "idle"]
NoRec == [pc |-> "idle"]
NoTracks == [pc |-> "idle"]
NoGenres == [pc |-> "idle"]
NoCred == [pc |-> "idle"]
NoBg == [pc |-> "idle"]
NoFilter == [pc |-> "idle"]
NoFeatures == [pc |-> "idle"]
NoGetTracks == [pc |-> "idle"]
NoLiked == [pc |-> "idle"]

\* no filterTracksByGenre, getAudioFeatures, concurrent getTracks or liked_tracks
\* work under way
InitMore ==
    /\ flt = NoFilter
    /\ af = NoFeatures
    /\ gt = NoGetTracks
    /\ lk = NoLiked

InitOthers ==
    /\ trackCall = NoTracks
    /\ genres = NoGenres
    /\ cred = NoCred
    /\ bg = NoBg
    /\ InitMore

InitGateway ==
    /\ now = StartTime
    /\ \E issuedAt \in {0, StartTime} :
          db = [u \in Users |->
                  IF u = "u1"
                  THEN [at |-> 0, rt |-> 0, upd |-> issuedAt, api |-> Sha256(u, 0)]
                  ELSE NoRow]
    /\ client = NoTok
    /\ isRateLimited = FALSE
    /\ rateLimitPromise = 0
    /\ timers = <<>>
    /\ apiCallCount = 0
    /\ issued = <<>>
    /\ cache = [k \in Keys |-> NoEntry]
    /\ calls = [c \in Calls |-> InitCall]
    /\ hist = [c \in Calls |-> InitHist]
    /\ obs = [early |-> FALSE, storm |-> FALSE, lastWrite |-> <<>>, htrWrites |-> 0,
              proWrites |-> 0]
    /\ userCalls = [c \in Calls |-> InitUserCall]

InitCommon ==
    /\ InitGateway
    /\ scan = NoScan
    /\ mat = NoMat
    /\ rec = NoRec
    /\ InitOthers

Init == InitCommon /\ caching = FALSE


\* ------------------------------------------------ steps of makeSpotifyApiCall

\* if (this.isRateLimited) await this.rateLimitPromise; then the db lookup
AtCheck(r, limited, promise) ==
    IF limited THEN [r EXCEPT !.pc = "awaitRL", !.wait = promise]
    ELSE [r EXCEPT !.pc = "lookup"]

\* the top of makeSpotifyApiCall, up to its first await
AtEntry(r, limited, promise) ==
    IF caching THEN [r EXCEPT !.pc = "cacheGet"] ELSE AtCheck(r, limited, promise)

\* what the call has seen of the rate limit when it passes the check
Seen(h, checked) == IF checked THEN [h EXCEPT !.gate = RunningWaits] ELSE h

\* this.setSpotifyTokens(accessToken, refreshToken)
SetSpotifyTokens(at, rt) == client' = [at |-> at, rt |-> rt]

Fail(r, e) == [r EXCEPT !.pc = "done", !.result = e]

\* a request handler calls makeSpotifyApiCall(apiCall, id)
Start(c, u, o) ==
    /\ calls[c].pc = "idle"
    /\ LET r == [calls[c] EXCEPT !.uid = u, !.op = o]
       IN /\ calls' = [calls EXCEPT ![c] = AtEntry(r, isRateLimited, rateLimitPromise)]
          /\ hist' = [hist EXCEPT ![c] = Seen(@, ~caching)]
    /\ UNCHANGED <<now, db, client, isRateLimited, rateLimitPromise, timers,
                   apiCallCount, issued, caching, cache, obs>>
    /\ UNCHANGED svcVars

\* const cachedResult = await redis.get(cacheKey); if (cachedResult) return JSON.parse(...)
CacheGet(c) ==
    /\ calls[c].pc = "cacheGet"
    /\ LET r == calls[c]
           e == RedisGet(CacheKey(r.uid, r.op))
       IN IF e # NoEntry
          THEN /\ calls' = [calls EXCEPT ![c] = [r EXCEPT !.pc = "done", !.result = "ok",
                                                          !.val = JSONParse(e.val)]]
               /\ hist' = [hist EXCEPT ![c].fromCache = TRUE]
          ELSE /\ calls' = [calls EXCEPT ![c] = AtCheck(r, isRateLimited, rateLimitPromise)]
               /\ hist' = [hist EXCEPT ![c] = Seen(@, TRUE)]
    /\ UNCHANGED <<now, db, client, isRateLimited, rateLimitPromise, timers,
                   apiCallCount, issued, caching, cache, obs>>
    /\ UNCHANGED svcVars

\* await this.rateLimitPromise (line 52) goes on once that promise is settled
AwaitRateLimit(c) ==
    /\ calls[c].pc = "awaitRL"
    /\ Resolved(calls[c].wait)
    /\ calls' = [calls EXCEPT ![c].pc = "lookup"]
    /\ UNCHANGED <<now, db, client, isRateLimited, rateLimitPromise, timers,
                   apiCallCount, issued, caching, cache, hist, obs>>
    /\ UNCHANGED svcVars

\* what a call has done since its latest credential lookup (observation only):
\* the outcome of the expiry test, and the exchanges and row updates since
Pass(h, expired) == [h EXCEPT !.expired = expired, !.passExch = 0, !.passWrites = 0]

\* const user = await db('users').where('user_id', id).first(); the expiry test;
\* setSpotifyTokens(user...) and apiCallCount++ when the token is still good
Lookup(c) ==
    /\ calls[c].pc = "lookup"
    /\ LET r == calls[c]
           row == db[r.uid]
       IN /\ IF row = NoRow
             THEN \* throw new Error('User not found in the database.'), caught below
                  /\ calls' = [calls EXCEPT ![c].pc = "getRT"]
                  /\ UNCHANGED <<client, apiCallCount>>
             ELSE IF Expired(row, now)
             THEN /\ calls' = [calls EXCEPT ![c] = [r EXCEPT !.pc = "proExchange", !.usr = row]]
                  /\ UNCHANGED <<client, apiCallCount>>
             ELSE /\ calls' = [calls EXCEPT ![c] = [r EXCEPT !.pc = "delay", !.usr = row]]
                  /\ SetSpotifyTokens(row.at, row.rt)
                  /\ apiCallCount' = apiCallCount + 1
          /\ hist' = [hist EXCEPT ![c] = Pass(@, row # NoRow /\ Expired(row, now))]
    /\ UNCHANGED <<now, db, isRateLimited, rateLimitPromise, timers,
                   issued, caching, cache, obs>>
    /\ UNCHANGED svcVars

\* failing answers (429 or other) the upstream has given so far, over all calls
RECURSIVE SumFails(_)
SumFails(S) ==
    IF S = {} THEN 0
    ELSE LET c == CHOOSE x \in S : TRUE
         IN hist[c].fails + hist[c].n429 + SumFails(S \ {c})
TotalFails == SumFails(Calls)

\* refresh exchanges the gateway has made so far, over all calls
RECURSIVE SumExchanges(_)
SumExchanges(S) ==
    IF S = {} THEN 0
    ELSE LET c == CHOOSE x \in S : TRUE
         IN hist[c].exch + SumExchanges(S \ {c})
TotalExchanges == SumExchanges(Calls)

\* const refreshedTokens = await this.refreshAccessToken(user.refresh_token)
ProExchange(c, ok, rotated) ==
    /\ calls[c].pc = "proExchange"
    /\ TotalExchanges < MaxExchanges
    /\ LET r == calls[c]
           t == RefreshedTokens(r.usr.rt, Len(issued) + 1, rotated)
       IN IF ok
          THEN /\ calls' = [calls EXCEPT ![c] = [r EXCEPT !.pc = "proUpdate", !.tok = t]]
               /\ hist' = [hist EXCEPT ![c].exch = @ + 1, ![c].passExch = @ + 1]
               /\ issued' = Append(issued, t)
          ELSE \* the axios error has no statusCode: the catch takes the refresh branch
               /\ calls' = [calls EXCEPT ![c].pc = "getRT"]
               /\ hist' = [hist EXCEPT ![c].exch = @ + 1, ![c].passExch = @ + 1,
                                       ![c].xfail = <<hist[c].exch + 1, hist[c].ops>>]
               /\ issued' = Append(issued, NoTok)
    /\ UNCHANGED <<now, db, client, isRateLimited, rateLimitPromise, timers,
                   apiCallCount, caching, cache, obs>>
    /\ UNCHANGED svcVars

\* db('users').where('user_id', id).update({access_token, refresh_token, updated_at})
\* an update that derives the api token again from the new access token
RehashById(id, t) ==
    [db EXCEPT ![id] = IF @ = NoRow THEN @
                       ELSE [@ EXCEPT !.at = t.at, !.rt = t.rt, !.upd = now,
                                      !.api = Sha256(id, t.at)]]
\* db('users').where('user_id', id).update({access_token, refresh_token, updated_at})
UpdateById(id, t) ==
    [db EXCEPT ![id] = IF @ = NoRow THEN @
                       ELSE [@ EXCEPT !.at = t.at, !.rt = t.rt, !.upd = now]]

\* the update of lines 65-69, then setSpotifyTokens and apiCallCount++
ProUpdate(c) ==
    /\ calls[c].pc = "proUpdate"
    /\ LET r == calls[c]
       IN /\ db' = UpdateById(r.uid, r.tok)
          /\ SetSpotifyTokens(r.tok.at, r.tok.rt)
          /\ obs' = [obs EXCEPT !.lastWrite = <<r.tok.at, r.tok.rt>>, !.proWrites = @ + 1]
    /\ apiCallCount' = apiCallCount + 1
    /\ calls' = [calls EXCEPT ![c].pc = "delay"]
    /\ hist' = [hist EXCEPT ![c].passWrites = @ + 1]
    /\ UNCHANGED <<now, isRateLimited, rateLimitPromise, timers,
                   issued, caching, cache>>
    /\ UNCHANGED svcVars

\* the value an upstream operation answers with
Response(u, o) == [user |-> u, op |-> o]

\* await delay(REQUEST_DELAY); return await apiCall(); and, when apiCall throws,
\* the catch block up to its first await
Operation(c, outcome, retryAfter) ==
    /\ calls[c].pc = "delay"
    /\ outcome = "ok" \/ TotalFails < MaxFailures
    /\ LET r == calls[c]
           h == [hist[c] EXCEPT !.ops = @ + 1]
           branch == CatchBranch(outcome)
           id == Len(timers) + 1
       IN /\ obs' = [obs EXCEPT !.early = @ \/ now < h.notBefore,
                                !.storm = @ \/ \E t \in h.gate : now < timers[t].deadline]
          /\ CASE outcome = "ok" ->
                   /\ calls' = [calls EXCEPT ![c] =
                          [r EXCEPT !.pc = IF caching THEN "cacheSet" ELSE "done",
                                    !.result = IF caching THEN NoResult ELSE "ok",
                                    !.val = Response(r.uid, r.op)]]
                   /\ hist' = [hist EXCEPT ![c] = h]
                   /\ UNCHANGED <<isRateLimited, rateLimitPromise, timers>>
               [] outcome # "ok" /\ branch = "backoff" ->
                   \* this.isRateLimited = true; this.rateLimitPromise = new Promise(
                   \*   resolve => setTimeout(resolve, retryAfter)); await it
                   /\ now + retryAfter <= MaxTime
                   /\ isRateLimited' = TRUE
                   /\ timers' = Append(timers, [deadline |-> now + retryAfter, fired |-> FALSE])
                   /\ rateLimitPromise' = id
                   /\ calls' = [calls EXCEPT ![c] = [r EXCEPT !.pc = "backoff", !.wait = id]]
                   /\ hist' = [hist EXCEPT ![c] =
                          [h EXCEPT !.n429 = @ + 1, !.notBefore = now + retryAfter]]
               [] outcome # "ok" /\ branch = "refresh" ->
                   /\ calls' = [calls EXCEPT ![c].pc = "getRT"]
                   /\ hist' = [hist EXCEPT ![c] = [h EXCEPT !.fails = @ + 1]]
                   /\ UNCHANGED <<isRateLimited, rateLimitPromise, timers>>
               [] outcome # "ok" /\ branch = "throw" ->
                   /\ calls' = [calls EXCEPT ![c] = Fail(r, outcome)]
                   /\ hist' = [hist EXCEPT ![c] = h]
                   /\ UNCHANGED <<isRateLimited, rateLimitPromise, timers>>
    /\ UNCHANGED <<now, db, client, apiCallCount, issued, caching, cache>>
    /\ UNCHANGED svcVars

\* await redis.setex(cacheKey, 3600, JSON.stringify(result)); return result
CacheSet(c) ==
    /\ calls[c].pc = "cacheSet"
    /\ LET r == calls[c]
       IN /\ cache' = [cache EXCEPT ![CacheKey(r.uid, r.op)] =
                          [val |-> JSONStringify(r.val), exp |-> now + CacheTTL]]
          /\ calls' = [calls EXCEPT ![c] = [r EXCEPT !.pc = "done", !.result = "ok"]]
    /\ UNCHANGED <<now, db, client, isRateLimited, rateLimitPromise, timers,
                   apiCallCount, issued, caching, hist, obs>>
    /\ UNCHANGED svcVars

\* after await this.rateLimitPromise (line 88): this.isRateLimited = false;
\* this.rateLimitPromise = null; return this.makeSpotifyApiCall(apiCall, id)
Backoff(c) ==
    /\ calls[c].pc = "backoff"
    /\ Resolved(calls[c].wait)
    /\ isRateLimited' = FALSE
    /\ rateLimitPromise' = 0
    /\ calls' = [calls EXCEPT ![c] = AtEntry(@, FALSE, 0)]
    /\ hist' = [hist EXCEPT ![c] = Seen(@, ~caching)]
    /\ UNCHANGED <<now, db, client, timers, apiCallCount, issued, caching, cache, obs>>
    /\ UNCHANGED svcVars

\* getRefreshToken without its `if (!user) throw`: reading user.refresh_token throws
GetRefreshTokenNoCheck(c) ==
    /\ calls[c].pc = "getRT"
    /\ LET r == calls[c]
           row == db[r.uid]
       IN calls' = [calls EXCEPT ![c] =
              IF row = NoRow THEN Fail(r, "TypeError")
              ELSE [r EXCEPT !.pc = "htrExchange", !.rtIn = row.rt]]
    /\ UNCHANGED <<now, db, client, isRateLimited, rateLimitPromise, timers,
                   apiCallCount, issued, caching, cache, hist, obs>>
    /\ UNCHANGED svcVars

\* getRefreshToken(id), called from the catch block's else branch
GetRefreshToken(c) ==
    /\ calls[c].pc = "getRT"
    /\ LET r == calls[c]
           row == db[r.uid]
       IN calls' = [calls EXCEPT ![c] =
              IF row = NoRow THEN Fail(r, "UserNotFound")
              ELSE [r EXCEPT !.pc = "htrExchange", !.rtIn = row.rt]]
    /\ UNCHANGED <<now, db, client, isRateLimited, rateLimitPromise, timers,
                   apiCallCount, issued, caching, cache, hist, obs>>
    /\ UNCHANGED svcVars

\* handleTokenRefresh: refreshAccessToken(refreshToken), then setSpotifyTokens;
\* a failed exchange is rethrown as 'Failed to refresh Spotify access token.'
HtrExchange(c, ok, rotated) ==
    /\ calls[c].pc = "htrExchange"
    /\ TotalExchanges < MaxExchanges
    /\ LET r == calls[c]
           t == RefreshedTokens(r.rtIn, Len(issued) + 1, rotated)
       IN IF ok
          THEN /\ calls' = [calls EXCEPT ![c] = [r EXCEPT !.pc = "htrUpdate", !.tok = t]]
               /\ SetSpotifyTokens(t.at, t.rt)
               /\ hist' = [hist EXCEPT ![c].exch = @ + 1, ![c].passExch = @ + 1]
               /\ issued' = Append(issued, t)
          ELSE /\ calls' = [calls EXCEPT ![c] = Fail(r, "RefreshFailed")]
               /\ hist' = [hist EXCEPT ![c].exch = @ + 1, ![c].passExch = @ + 1,
                                       ![c].xfail = <<hist[c].exch + 1, hist[c].ops>>]
               /\ issued' = Append(issued, NoTok)
               /\ UNCHANGED client
    /\ UNCHANGED <<now, db, isRateLimited, rateLimitPromise, timers,
                   apiCallCount, caching, cache, obs>>
    /\ UNCHANGED svcVars

\* an update that leaves the refresh_token column out
UpdateByRefreshTokenAccessOnly(refreshToken, t) ==
    [u \in Users |->
        IF db[u] # NoRow /\ db[u].rt = refreshToken
        THEN [db[u] EXCEPT !.at = t.at] ELSE db[u]]
\* db('users').where('refresh_token', refreshToken).update({access_token, refresh_token})
UpdateByRefreshToken(refreshToken, t) ==
    [u \in Users |->
        IF db[u] # NoRow /\ db[u].rt = refreshToken
        THEN [db[u] EXCEPT !.at = t.at, !.rt = t.rt] ELSE db[u]]

\* handleTokenRefresh's update, then the retry: return this.makeSpotifyApiCall(apiCall, id)
HtrUpdate(c) ==
    /\ calls[c].pc = "htrUpdate"
    /\ LET r == calls[c]
       IN /\ db' = UpdateByRefreshToken(r.rtIn, r.tok)
          /\ obs' = [obs EXCEPT !.lastWrite = <<r.tok.at, r.tok.rt>>, !.htrWrites = @ + 1]
          /\ calls' = [calls EXCEPT ![c] = AtEntry(r, isRateLimited, rateLimitPromise)]
    /\ hist' = [hist EXCEPT ![c] = Seen([@ EXCEPT !.passWrites = @ + 1], ~caching)]
    /\ UNCHANGED <<now, client, isRateLimited, rateLimitPromise, timers,
                   apiCallCount, issued, caching, cache>>
    /\ UNCHANGED svcVars

\* a setTimeout callback runs: resolve()
TimerFire(t) ==
    /\ t \in 1..Len(timers)
    /\ ~timers[t].fired
    /\ TimerDue(t)
    /\ timers' = [timers EXCEPT ![t].fired = TRUE]
    /\ UNCHANGED <<now, db, client, isRateLimited, rateLimitPromise,
                   apiCallCount, issued, caching, cache, calls, hist, obs>>
    /\ UNCHANGED svcVars

\* time passes; it is followed only while a timer is waiting for it
Tick ==
    /\ \E t \in PendingTimers : now < timers[t].deadline
    /\ now + 1 <= MaxTime
    /\ now' = now + 1
    /\ UNCHANGED <<db, client, isRateLimited, rateLimitPromise, timers,
                   apiCallCount, issued, caching, cache, calls, hist, obs>>
    /\ UNCHANGED svcVars

Outcomes == {"ok", "429", "err"}

\* calls are interchangeable: they are started in the order of their names
First(c) == c = "c1" \/ calls["c1"].pc # "idle"

Next ==
    \/ \E c \in Calls, u \in Users : First(c) /\ Start(c, u, "getPlaylist")
    \/ \E c \in Calls : AwaitRateLimit(c)
    \/ \E c \in Calls : Lookup(c)
    \/ \E c \in Calls, ok \in BOOLEAN, rotated \in BOOLEAN : ProExchange(c, ok, rotated)
    \/ \E c \in Calls : ProUpdate(c)
    \/ \E c \in Calls, o \in Outcomes, T \in RetryAfters : Operation(c, o, T)
    \/ \E c \in Calls : Backoff(c)
    \/ \E c \in Calls : GetRefreshToken(c)
    \/ \E c \in Calls, ok \in BOOLEAN, rotated \in BOOLEAN : HtrExchange(c, ok, rotated)
    \/ \E c \in Calls : HtrUpdate(c)
    \/ \E t \in 1..MaxFailures : TimerFire(t)
    \/ Tick

Spec == Init /\ [][Next]_vars

\* ---------------------------------------------------------------------------
\* The variant of the service whose gateway caches every result in redis.
CacheInit == InitCommon /\ caching = TRUE

CacheNext ==
    \/ \E c \in Calls, o \in Operations : First(c) /\ Start(c, "u1", o)
    \/ \E c \in Calls : CacheGet(c)
    \/ \E c \in Calls : AwaitRateLimit(c)
    \/ \E c \in Calls : Lookup(c)
    \/ \E c \in Calls, ok \in BOOLEAN, rotated \in BOOLEAN : ProExchange(c, ok, rotated)
    \/ \E c \in Calls : ProUpdate(c)
    \/ \E c \in Calls, o \in Outcomes, T \in RetryAfters : Operation(c, o, T)
    \/ \E c \in Calls : CacheSet(c)
    \/ \E c \in Calls : Backoff(c)
    \/ \E c \in Calls : GetRefreshToken(c)
    \/ \E c \in Calls, ok \in BOOLEAN, rotated \in BOOLEAN : HtrExchange(c, ok, rotated)
    \/ \E c \in Calls : HtrUpdate(c)
    \/ \E t \in 1..MaxFailures : TimerFire(t)
    \/ Tick

CacheSpec == CacheInit /\ [][CacheNext]_vars

\* ---------------------------------------------------------------------------
\* The gateway against an upstream that answers 429 or success only, for users
\* whose row exists and whose refresh exchanges succeed. The event loop runs
\* every continuation that is ready and every timer that is due.
CallStep(c) ==
    \/ First(c) /\ Start(c, "u1", "getPlaylist")
    \/ AwaitRateLimit(c)
    \/ Lookup(c)
    \/ \E rotated \in BOOLEAN : ProExchange(c, TRUE, rotated)
    \/ ProUpdate(c)
    \/ \E o \in {"ok", "429"}, T \in RetryAfters : Operation(c, o, T)
    \/ Backoff(c)

LiveNext ==
    \/ \E c \in Calls : CallStep(c)
    \/ \E t \in 1..MaxFailures : TimerFire(t)
    \/ Tick

LiveSpec ==
    /\ Init
    /\ [][LiveNext]_vars
    /\ \A c \in Calls : WF_vars(CallStep(c))
    /\ \A t \in 1..MaxFailures : WF_vars(TimerFire(t))
    /\ WF_vars(Tick)

\* ---------------------------------------------------------------------------
\* getUser: the profile of a user, cached in redis under user:<id>. A call of
\* getUser runs its gateway call under its own name.
GetMe == "getMe"

\* (await this.makeSpotifyApiCall(() => this.spotifyApi.getMe(), id)).body
Body(response) == [profileOf |-> response.user]

\* resolve(result ? JSON.parse(result) : null)
CachedUser(result) == IF result = NoEntry THEN Null ELSE JSONParse(result.val)

\* makeSpotifyApiCall(() => this.spotifyApi.getMe(), id), up to its first await
InvokeGetMe(c, id) ==
    /\ calls' = [calls EXCEPT ![c] =
           AtEntry([InitCall EXCEPT !.uid = id, !.op = GetMe], isRateLimited, rateLimitPromise)]
    /\ hist' = [hist EXCEPT ![c] = Seen(@, ~caching)]

\* getUser(id) up to the answer of redis.get(cacheKey): if (cachedUser) return cachedUser
GetUser(c, id) ==
    /\ userCalls[c].pc = "idle"
    /\ LET result == RedisGet(UserKey(id))
           cachedUser == CachedUser(result)
           g == [userCalls[c] EXCEPT !.uid = id, !.seen = cache[UserKey(id)], !.readAt = now]
       IN userCalls' = [userCalls EXCEPT ![c] =
              IF cachedUser # Null
              THEN [g EXCEPT !.pc = "done", !.result = "ok", !.ret = cachedUser, !.hit = TRUE]
              ELSE [g EXCEPT !.pc = "first"]]
    /\ UNCHANGED <<gwVars, scan, mat, rec, otherVars>>

\* const user = await db('users').where('user_id', id).first();
\* if (!user) return {error: ...}; setSpotifyTokens; the first makeSpotifyApiCall
UserFirst(c) ==
    /\ userCalls[c].pc = "first"
    /\ LET g == userCalls[c]
           user == db[g.uid]
       IN IF user = NoRow
          THEN /\ userCalls' = [userCalls EXCEPT ![c] =
                      [g EXCEPT !.pc = "done", !.result = "UserNotFound"]]
               /\ UNCHANGED <<client, calls, hist>>
          ELSE /\ userCalls' = [userCalls EXCEPT ![c] = [g EXCEPT !.pc = "try", !.user = user]]
               /\ SetSpotifyTokens(user.at, user.rt)
               /\ InvokeGetMe(c, g.uid)
    /\ UNCHANGED <<now, db, isRateLimited, rateLimitPromise, timers, apiCallCount,
                   issued, caching, cache, obs, scan, mat, rec,
                   trackCall, genres, cred, bg, moreVars>>

\* await redis.setex(cacheKey, 3600, JSON.stringify(spotifyUser)); return spotifyUser
\* (lines 130-132, and lines 139-141 after the refresh)
UserSetex(c) ==
    /\ userCalls[c].pc \in {"try", "retry"}
    /\ calls[c].pc = "done"
    /\ calls[c].result = "ok"
    /\ LET spotifyUser == Body(calls[c].val)
           k == UserKey(userCalls[c].uid)
       IN /\ cache' = Setex(k, CacheTTL, JSONStringify(spotifyUser))
          /\ userCalls' = [userCalls EXCEPT ![c] =
                 [@ EXCEPT !.pc = "done", !.result = "ok", !.ret = spotifyUser,
                           !.storedAt = now, !.stored = cache'[k]]]
    /\ UNCHANGED <<now, db, client, isRateLimited, rateLimitPromise, timers, apiCallCount,
                   issued, caching, calls, hist, obs, scan, mat, rec,
                   trackCall, genres, cred, bg, moreVars>>

\* the first makeSpotifyApiCall has thrown: catch, handleTokenRefresh(user.refresh_token)
UserCatch(c) ==
    /\ userCalls[c].pc = "try"
    /\ calls[c].pc = "done"
    /\ calls[c].result # "ok"
    /\ userCalls' = [userCalls EXCEPT ![c].pc = "refresh"]
    /\ UNCHANGED <<gwVars, scan, mat, rec, otherVars>>

\* handleTokenRefresh: refreshAccessToken(refreshToken), then setSpotifyTokens; a
\* failed exchange ends getUser with 'Failed to retrieve Spotify user after ...'
UserExchange(c, ok, rotated) ==
    /\ userCalls[c].pc = "refresh"
    /\ LET g == userCalls[c]
           t == RefreshedTokens(g.user.rt, Len(issued) + 1, rotated)
       IN IF ok
          THEN /\ userCalls' = [userCalls EXCEPT ![c] = [g EXCEPT !.pc = "update", !.tok = t]]
               /\ SetSpotifyTokens(t.at, t.rt)
               /\ issued' = Append(issued, t)
          ELSE /\ userCalls' = [userCalls EXCEPT ![c] =
                      [g EXCEPT !.pc = "done", !.result = "Failed"]]
               /\ issued' = Append(issued, NoTok)
               /\ UNCHANGED client
    /\ UNCHANGED <<now, db, isRateLimited, rateLimitPromise, timers, apiCallCount,
                   caching, cache, calls, hist, obs, scan, mat, rec,
                   trackCall, genres, cred, bg, moreVars>>

\* handleTokenRefresh's update, then the second makeSpotifyApiCall (line 139)
UserUpdate(c) ==
    /\ userCalls[c].pc = "update"
    /\ LET g == userCalls[c]
       IN /\ db' = UpdateByRefreshToken(g.user.rt, g.tok)
          /\ obs' = [obs EXCEPT !.lastWrite = <<g.tok.at, g.tok.rt>>, !.htrWrites = @ + 1]
          /\ InvokeGetMe(c, g.uid)
          /\ userCalls' = [userCalls EXCEPT ![c].pc = "retry"]
    /\ UNCHANGED <<now, client, isRateLimited, rateLimitPromise, timers, apiCallCount,
                   issued, caching, cache, scan, mat, rec,
                   trackCall, genres, cred, bg, moreVars>>

\* the second makeSpotifyApiCall has thrown: throw new Error('Failed to retrieve ...')
UserRethrow(c) ==
    /\ userCalls[c].pc = "retry"
    /\ calls[c].pc = "done"
    /\ calls[c].result # "ok"
    /\ userCalls' = [userCalls EXCEPT ![c] = [@ EXCEPT !.pc = "done", !.result = "Failed"]]
    /\ UNCHANGED <<gwVars, scan, mat, rec, otherVars>>

\* the instants at which the run is observed: around the start and around the
\* expiry of a profile stored at the start
Instants ==
    {StartTime + 1, StartTime + CacheTTL - 1, StartTime + CacheTTL, StartTime + CacheTTL + 1}

\* time passes between two requests (a request is over within the second), up to
\* the next instant or a later one
Elapse(t) ==
    /\ \A c \in Calls : userCalls[c].pc \in {"idle", "done"}
    /\ t > now
    /\ now' = t
    /\ UNCHANGED <<db, client, isRateLimited, rateLimitPromise, timers, apiCallCount,
                   issued, caching, cache, calls, hist, obs, svcVars>>

\* calls of getUser are interchangeable: they are made in the order of their names
FirstUser(c) == c = "c1" \/ userCalls["c1"].pc # "idle"

\* The upstream answers getMe with success or with an error other than 429.
UserNext ==
    \/ \E c \in Calls, u \in Users : FirstUser(c) /\ GetUser(c, u)
    \/ \E c \in Calls : UserFirst(c)
    \/ \E c \in Calls : UserSetex(c)
    \/ \E c \in Calls : UserCatch(c)
    \/ \E c \in Calls, ok \in BOOLEAN, rotated \in BOOLEAN : UserExchange(c, ok, rotated)
    \/ \E c \in Calls : UserUpdate(c)
    \/ \E c \in Calls : UserRethrow(c)
    \/ \E c \in Calls : Lookup(c)
    \/ \E c \in Calls, ok \in BOOLEAN, rotated \in BOOLEAN : ProExchange(c, ok, rotated)
    \/ \E c \in Calls : ProUpdate(c)
    \/ \E c \in Calls, o \in {"ok", "err"} : Operation(c, o, 1)
    \/ \E c \in Calls : GetRefreshToken(c)
    \/ \E c \in Calls, ok \in BOOLEAN, rotated \in BOOLEAN : HtrExchange(c, ok, rotated)
    \/ \E c \in Calls : HtrUpdate(c)
    \/ \E t \in Instants : Elapse(t)

UserSpec == Init /\ [][UserNext]_vars

\* ---------------------------------------------------------------------------
\* findLikedFromMonth: the scan of the saved tracks of a user, newest first, in
\* pages of MAX items. Time stamps count half days; a saved track is named by
\* its position in the upstream list. The variant without the liked_tracks
\* table is "plain" (Spotify.js, part_004), the one with it is "stored"
\* (part_003, for a user of whom the table holds nothing yet).
Months == {1, 2}
Variants == {"plain", "stored"}

\* new Date(year, monthIndex, day) at 00:00, days outside 1..DaysPerMonth rolling
\* over into the neighbouring month
Date(monthIndex, day) == (monthIndex * DaysPerMonth + day - 1) * 2

\* const startDate = new Date(year, month - 1, 1)
StartDate(month) == Date(month - 1, 1)
\* const endDate = new Date(year, month, 0)
EndDate(month) == Date(month, 0)

Stamps == 0 .. (Date(Cardinality(Months), 1) - 1)

\* the saved-track lists of at most MaxTracks items, newest first
SavedLists ==
    UNION {{l \in [1..n -> Stamps] : \A i \in 1..(n - 1) : l[i] >= l[i + 1]} :
              n \in 0..MaxTracks}

\* the answer of getMySavedTracks({limit, offset}): body.items (as positions)
Items(list, limit, offset) ==
    [i \in 1..(IF Len(list) - offset < 0 THEN 0
               ELSE IF Len(list) - offset < limit THEN Len(list) - offset ELSE limit)
        |-> offset + i]

\* songs.filter(song => addedAt >= startDate && addedAt <= endDate)
RECURSIVE Filter(_, _, _)
Filter(songs, list, month) ==
    IF songs = <<>> THEN <<>>
    ELSE LET addedAt == list[Head(songs)]
             rest == Filter(Tail(songs), list, month)
         IN IF addedAt >= StartDate(month) /\ addedAt <= EndDate(month)
            THEN <<Head(songs)>> \o rest ELSE rest

\* the break test on the first item of the page
Break(variant, addedAt, month, collected) ==
    IF variant = "plain"
    THEN addedAt < StartDate(month) \/ (addedAt > EndDate(month) /\ collected > 0)
    ELSE addedAt < StartDate(month)

\* findLikedFromMonth(id, month, year) has been called: its locals before the loop
ScanCall(variant, month, list) ==
    [pc |-> "test", variant |-> variant, month |-> month, list |-> list,
     likedSongs |-> <<>>, offset |-> 0, limit |-> MAX, total |-> 1, songs |-> <<>>,
     fetches |-> 0, sawEmpty |-> FALSE, result |-> NoResult]

ScanInit ==
    /\ InitGateway
    /\ caching = FALSE
    /\ \E variant \in Variants, month \in Months, list \in SavedLists :
          scan = ScanCall(variant, month, list)
    /\ mat = NoMat
    /\ rec = NoRec
    /\ InitOthers

\* while (likedSongs.length < total): the next page is asked for through the
\* gateway, or the loop is left and likedSongs returned
ScanTest ==
    /\ scan.pc = "test"
    /\ scan' = IF Len(scan.likedSongs) < scan.total
               THEN [scan EXCEPT !.pc = "await", !.fetches = @ + 1]
               ELSE [scan EXCEPT !.pc = "done", !.result = "ok"]
    /\ UNCHANGED <<gwVars, userCalls, mat, rec, otherVars>>

\* the gateway call for the page has thrown: the error leaves findLikedFromMonth
ScanThrown ==
    /\ scan.pc \in {"await", "store"}
    /\ scan' = [scan EXCEPT !.pc = "done", !.result = "GatewayError"]
    /\ UNCHANGED <<gwVars, userCalls, mat, rec, otherVars>>

\* the page has come: songs, total, offset += limit, the date of songs[0] (a
\* TypeError when there is no songs[0]), the break test, and in the plain
\* variant the filter
ScanPage ==
    /\ scan.pc = "await"
    /\ LET songs == Items(scan.list, scan.limit, scan.offset)
           s == [scan EXCEPT !.songs = songs, !.total = Len(scan.list),
                             !.offset = @ + scan.limit,
                             !.sawEmpty = @ \/ songs = <<>>]
       IN scan' =
            IF songs = <<>>
            THEN [s EXCEPT !.pc = "done", !.result = "TypeError"]
            ELSE IF Break(s.variant, s.list[songs[1]], s.month, Len(s.likedSongs))
            THEN [s EXCEPT !.pc = "done", !.result = "ok"]
            ELSE IF s.variant = "stored"
            THEN [s EXCEPT !.pc = "store"]
            ELSE [s EXCEPT !.pc = "test",
                           !.likedSongs = @ \o Filter(songs, s.list, s.month)]
    /\ UNCHANGED <<gwVars, userCalls, mat, rec, otherVars>>

\* the stored variant: audio features and artist genres of the page have come
\* and its tracks are written; then the filter
ScanStore ==
    /\ scan.pc = "store"
    /\ scan' = [scan EXCEPT !.pc = "test",
                            !.likedSongs = @ \o Filter(scan.songs, scan.list, scan.month)]
    /\ UNCHANGED <<gwVars, userCalls, mat, rec, otherVars>>

ScanNext == ScanTest \/ ScanThrown \/ ScanPage \/ ScanStore

ScanSpec == ScanInit /\ [][ScanNext]_vars

\* ---------------------------------------------------------------------------
\* addTracksToPlaylistAndRetrieve: the track URIs are added to the playlist in
\* batches of MAX, one gateway call per batch, then the playlist is fetched.
\* A gateway call returns the answer of the upstream, or throws.
Uris == {"a", "b"}

UriLists == UNION {[1..n -> Uris] : n \in 0..MaxUris}

\* a slice that has lost its end
SliceToEnd(s, from, to) == SubSeq(s, from + 1, Len(s))
\* songUris.slice(from, to)
Slice(s, from, to) == SubSeq(s, from + 1, IF to < Len(s) THEN to ELSE Len(s))

\* a failed batch that is logged and skipped
SkipBatch(m) == [m EXCEPT !.pc = "loop", !.i = @ + MAX, !.failedAt = Len(m.adds)]
\* an await whose gateway call throws: the error leaves the function
Propagate(m) == [m EXCEPT !.pc = "done", !.result = "GatewayError"]

\* addTracksToPlaylistAndRetrieve(songUris, playlist, id) has been called
MatCall(songUris) ==
    [pc |-> "loop", songUris |-> songUris, i |-> 0, adds |-> <<>>, completed |-> 0,
     failedAt |-> 0, fetches |-> 0, playlist |-> <<>>, result |-> NoResult, ret |-> <<>>]

MatInit ==
    /\ InitGateway
    /\ caching = FALSE
    /\ scan = NoScan
    /\ \E songUris \in UriLists : mat = MatCall(songUris)
    /\ rec = NoRec
    /\ InitOthers

\* for (let i = 0; i < songUris.length; i += MAX): the next batch is sent
\* through the gateway; after the loop, the playlist is asked for
MatLoop ==
    /\ mat.pc = "loop"
    /\ mat' = IF mat.i < Len(mat.songUris)
              THEN [mat EXCEPT !.pc = "awaitAdd",
                               !.adds = Append(@, Slice(mat.songUris, mat.i, mat.i + MAX))]
              ELSE [mat EXCEPT !.pc = "awaitFetch", !.fetches = @ + 1]
    /\ UNCHANGED <<gwVars, userCalls, scan, rec, otherVars>>

\* the gateway call of the batch is over: the upstream has appended the batch,
\* or the call has thrown
MatAdded(ok) ==
    /\ mat.pc = "awaitAdd"
    /\ mat' = IF ok
              THEN [mat EXCEPT !.pc = "loop", !.i = @ + MAX, !.completed = @ + 1,
                               !.playlist = @ \o mat.adds[Len(mat.adds)]]
              ELSE Propagate([mat EXCEPT !.failedAt = Len(mat.adds)])
    /\ UNCHANGED <<gwVars, userCalls, scan, rec, otherVars>>

\* the gateway call for the playlist is over: return playlistWithTracks.body
MatFetched(ok) ==
    /\ mat.pc = "awaitFetch"
    /\ mat' = IF ok
              THEN [mat EXCEPT !.pc = "done", !.result = "ok", !.ret = mat.playlist]
              ELSE Propagate(mat)
    /\ UNCHANGED <<gwVars, userCalls, scan, rec, otherVars>>

MatNext ==
    \/ MatLoop
    \/ \E ok \in BOOLEAN : MatAdded(ok)
    \/ \E ok \in BOOLEAN : MatFetched(ok)

MatSpec == MatInit /\ [][MatNext]_vars

\* ---------------------------------------------------------------------------
\* Recommendations.createRecommendationPlaylist(id, options, amount). An options
\* object gives each key a JavaScript value, written as a string, or leaves it
\* out (Absent). checkAmount(amount) is taken to be a pure function of amount.
Absent == "absent"
Conditions == {"recentlyPlayed", "mostPlayed", "likedTracks", "currentlyPlaying"}
OptionKeys ==
    <<"recentlyPlayed", "mostPlayed", "likedTracks", "currentlyPlaying",
      "genre", "useAudioFeatures", "useTrackSeeds", "targetValues">>

\* the values a request body gives the key
ValuesOf(key) ==
    IF key \in Conditions THEN {Absent, "false", "true"}
    ELSE IF key = "genre" THEN {Absent, "null", "rock"}
    ELSE IF key = "targetValues" THEN {Absent, "{}"}
    ELSE {Absent, "true"}

OptionObjects ==
    {o \in [{OptionKeys[i] : i \in 1..Len(OptionKeys)} -> {Absent, "false", "true", "null", "rock", "{}"}] :
        \A i \in 1..Len(OptionKeys) : o[OptionKeys[i]] \in ValuesOf(OptionKeys[i])}

\* ToBoolean: false, null, undefined, 0, NaN and '' are falsy, all else is truthy
Truthy(value) == value \notin {"false", "null", "undefined", "0", "NaN", ""}

\* Object.entries(options), as the keys that are present, in their order
Entries(options) == SelectSeq(OptionKeys, LAMBDA key : options[key] # Absent)

\* a test for the presence of an option instead of its truth
HasAnyOption(options) == Entries(options) # <<>>
\* #hasValidOptions: Object.values(options).some(value => value)
HasValidOptions(options) ==
    \E i \in 1..Len(Entries(options)) : Truthy(options[Entries(options)[i]])

\* the entries of #fetchTracksBasedOnConditions that are fetched: the copy of
\* options without genre, the entries with a truthy value
Fetched(options) ==
    SelectSeq(Entries(options), LAMBDA key : key # "genre" /\ Truthy(options[key]))

\* a test that lets the empty candidate list through
NeverEmpty(songIds) == FALSE
\* songIds.length === 0
NoSongs(songIds) == Len(songIds) = 0

\* the track lists the recommendation request answers with (as URIs)
Recommended == {<<>>, <<"a">>, <<"a", "b", "a">>}

\* songIds.sort(() => 0.5 - Math.random()).slice(0, 3)
SeedCount == 3

Range(s) == {s[i] : i \in 1..Len(s)}

\* the seeds the shuffle can leave in the first SeedCount places: the comparator
\* is random, so any SeedCount of the candidates (all of them if there are fewer)
RandomTrackIds(songIds) ==
    {seeds \in SUBSET Range(songIds) :
        Cardinality(seeds) = IF Cardinality(Range(songIds)) < SeedCount
                             THEN Cardinality(Range(songIds)) ELSE SeedCount}

FeatureKeys ==
    {"danceability", "energy", "loudness", "speechiness", "acousticness",
     "instrumentalness", "liveness", "valence", "tempo"}

\* the keys of the object #getAudioFeatures resolves with: min_<key>, max_<key>
FeatureBounds == {"min", "max"} \X FeatureKeys

\* the value of a call of an async function: a promise, whatever it settles with
AsyncCall(settlesWith) == [kind |-> "promise", keys |-> {}, settlesWith |-> settlesWith]

\* ...value in an object literal copies the own enumerable properties of the
\* value: a promise has none, and neither have false and undefined
Spread(value) == value.keys

\* the parameter object of getRecommendations: which keys it has, and the seeds
NoParams ==
    [seed_genres |-> FALSE, seeded |-> FALSE, seed_tracks |-> {}, limit |-> FALSE,
     bounds |-> {}, targets |-> {}]

\* ...(genre && {seed_genres: genre}), ...(useTrackSeeds && {seed_tracks:
\* randomTrackIds}), limit: MAX_RECOMMENDATIONS, ...(useAudioFeatures &&
\* this.#getAudioFeatures(songIds, id)), ...this.#getTargetValues(targetValues)
Params(options, randomTrackIds) ==
    [seed_genres |-> options["genre"] # Absent /\ Truthy(options["genre"]),
     seeded      |-> options["useTrackSeeds"] # Absent /\ Truthy(options["useTrackSeeds"]),
     seed_tracks |-> IF options["useTrackSeeds"] # Absent /\ Truthy(options["useTrackSeeds"])
                     THEN randomTrackIds ELSE {},
     limit       |-> TRUE,
     bounds      |-> IF options["useAudioFeatures"] # Absent
                           /\ Truthy(options["useAudioFeatures"])
                     THEN Spread(AsyncCall(FeatureBounds)) ELSE {},
     targets     |-> Spread(AsyncCall({}))]

\* evaluating the parameter object calls #getAudioFeatures when useAudioFeatures
\* is truthy: this.spotify.getAudioFeatures(songIds, id) is under way, unawaited
AudioFetch(options) ==
    IF options["useAudioFeatures"] # Absent /\ Truthy(options["useAudioFeatures"])
    THEN "pending" ELSE "none"

RecCall(options) ==
    [pc |-> "entry", options |-> options, entries |-> <<>>, k |-> 1, songIds |-> <<>>,
     asked |-> {}, given |-> {}, failed |-> {}, songUris |-> <<>>, upstream |-> 0,
     recRequests |-> 0, params |-> NoParams, audio |-> "none", playlists |-> 0,
     created |-> <<>>, log |-> <<>>,
     outcome |-> NoResult, result |-> NoResult]

RecInit ==
    /\ InitGateway
    /\ caching = FALSE
    /\ scan = NoScan
    /\ mat = NoMat
    /\ \E options \in OptionObjects : rec = RecCall(options)
    /\ InitOthers

Return(r, value) == [r EXCEPT !.pc = "done", !.outcome = "returned", !.result = value]
Throw(r, error) == [r EXCEPT !.pc = "done", !.outcome = "thrown", !.result = error]

\* amount = checkAmount(amount); if (!this.#hasValidOptions(options)) return {error}
RecEntry ==
    /\ rec.pc = "entry"
    /\ rec' = IF ~HasValidOptions(rec.options)
              THEN Return(rec, "No options selected.")
              ELSE [rec EXCEPT !.pc = "fetch", !.entries = Fetched(rec.options)]
    /\ UNCHANGED <<gwVars, userCalls, scan, mat, otherVars>>

\* a fetch error that leaves the loop and the build
Rethrown(r, condition) ==
    [r EXCEPT !.failed = @ \cup {condition}, !.pc = "done", !.outcome = "thrown",
              !.result = "GatewayError"]
\* catch (error) { console.error(...) }: the loop goes on with the next entry
Caught(r, condition) == [r EXCEPT !.failed = @ \cup {condition}]

\* one turn of the loop of #fetchTracksBasedOnConditions for a truthy entry:
\* this.spotify.fetchTracks(id, condition, ...), which knows the four conditions
\* and answers [] for any other key; an error is caught and logged
RecFetch(answer) ==
    /\ rec.pc = "fetch"
    /\ rec.k <= Len(rec.entries)
    /\ LET condition == rec.entries[rec.k]
           r == [rec EXCEPT !.k = @ + 1]
           sent == [r EXCEPT !.upstream = @ + 1, !.asked = @ \cup {condition},
                             !.log = Append(@, "fetchTracks")]
       IN rec' =
            IF condition \notin Conditions THEN r
            ELSE IF answer = "throws" THEN Caught(sent, condition)
            ELSE IF answer = "none" THEN sent
            ELSE [sent EXCEPT !.songIds = Append(@, condition),
                              !.given = @ \cup {condition}]
    /\ UNCHANGED <<gwVars, userCalls, scan, mat, otherVars>>

\* after the loop: if (songIds.length === 0) return {error}; else the
\* recommendation request is sent through the gateway
RecCandidates ==
    /\ rec.pc = "fetch"
    /\ rec.k > Len(rec.entries)
    /\ \E randomTrackIds \in RandomTrackIds(rec.songIds) :
         rec' = IF NoSongs(rec.songIds)
                THEN Return(rec, "No songs found.")
                ELSE [rec EXCEPT !.pc = "recommend",
                                 !.upstream = @ + (IF AudioFetch(rec.options) = "pending"
                                                   THEN 2 ELSE 1),
                                 !.recRequests = @ + 1,
                                 !.params = Params(rec.options, randomTrackIds),
                                 !.audio = AudioFetch(rec.options),
                                 !.log = @ \o (IF AudioFetch(rec.options) = "pending"
                                               THEN <<"getAudioFeatures">> ELSE <<>>)
                                           \o <<"getRecommendations">>]
    /\ UNCHANGED <<gwVars, userCalls, scan, mat, otherVars>>

\* the audio features request of #getAudioFeatures is answered; nothing awaits
\* the promise, so its value or error reaches no one
RecAudioFeatures(ok) ==
    /\ rec.audio = "pending"
    /\ rec' = [rec EXCEPT !.audio = IF ok THEN "resolved" ELSE "rejected"]
    /\ UNCHANGED <<gwVars, userCalls, scan, mat, otherVars>>

\* createPlaylist('Recommendations', {description, public: false,
\* collaborative: false}) is sent through the gateway
PlaylistOptions == [public |-> FALSE, collaborative |-> FALSE]

CreatePlaylist(r) ==
    [r EXCEPT !.pc = "playlist", !.upstream = @ + 1, !.playlists = @ + 1,
              !.created = Append(@, PlaylistOptions),
              !.log = Append(@, "createPlaylist")]

\* a build that goes on to #createPlaylist without recommendations
CreateAnyway(r) == CreatePlaylist(r)
\* await this.#getRecommendations(...) throws: the error leaves the build
RecommendationsFailed(r) == Throw(r, "GatewayError")

\* the recommendation request is answered, and #createPlaylist sends its request
RecRecommended(ok, tracks) ==
    /\ rec.pc = "recommend"
    /\ rec' = IF ok
              THEN CreatePlaylist([rec EXCEPT !.songUris = tracks,
                                              !.log = Append(@, "recommendations")])
              ELSE RecommendationsFailed(rec)
    /\ UNCHANGED <<gwVars, userCalls, scan, mat, otherVars>>

\* the playlist is created: addTracksToPlaylistAndRetrieve(songUris, playlist, id)
RecPlaylist(ok) ==
    /\ rec.pc = "playlist"
    /\ IF ok
       THEN /\ rec' = [rec EXCEPT !.pc = "materialize", !.log = Append(@, "playlist")]
            /\ mat' = MatCall(rec.songUris)
       ELSE /\ rec' = Throw(rec, "GatewayError")
            /\ UNCHANGED mat
    /\ UNCHANGED <<gwVars, userCalls, scan, otherVars>>

\* return await this.spotify.addTracksToPlaylistAndRetrieve(...)
RecReturn ==
    /\ rec.pc = "materialize"
    /\ mat.pc = "done"
    /\ rec' = IF mat.result = "ok" THEN Return(rec, "playlist") ELSE Throw(rec, mat.result)
    /\ UNCHANGED <<gwVars, userCalls, scan, mat, otherVars>>

RecNext ==
    \/ RecEntry
    \/ \E answer \in {"throws", "none", "one"} : RecFetch(answer)
    \/ RecCandidates
    \/ \E ok \in BOOLEAN : RecAudioFeatures(ok)
    \/ \E ok \in BOOLEAN, tracks \in Recommended : RecRecommended(ok, tracks)
    \/ \E ok \in BOOLEAN : RecPlaylist(ok)
    \/ RecReturn
    \/ MatLoop
    \/ \E ok \in BOOLEAN : MatAdded(ok)
    \/ \E ok \in BOOLEAN : MatFetched(ok)

RecSpec == RecInit /\ [][RecNext]_vars

\* ---------------------------------------------------------------------------
\* getTracks(id, spotifyApiMethod, total, offset, genre, random): one page of
\* the source without a genre; with a genre, pages are fetched and filtered
\* until the filtered list has MinMatches items. The source is a list of
\* items, each one matching the genre or not; an item is named by its place.

\* while (this.filteredTracks.length < 5)
MinMatches == 5

Sources == UNION {[1..n -> BOOLEAN] : n \in 0..MaxSource}

\* the page sizes a caller asks for
Totals == {MAX, MaxTotal}

\* if (random) offset = Math.floor(Math.random() * 11)
Offsets(random) == IF random THEN 0..10 ELSE {0}

\* offset += total; every offset beyond the end of the source gives the same
\* empty page, and those from MaxOffset on are kept as MaxOffset
Advance(offset, total) == IF offset + total > MaxOffset THEN MaxOffset ELSE offset + total

\* filterTracksByGenre(items, genre, id): the items of the page that match
FilterTracksByGenre(items, source) == SelectSeq(items, LAMBDA i : source[i])

GetTracksCall(source, total, offset, genre) ==
    [pc |-> "entry", source |-> source, total |-> total, offset |-> offset,
     genre |-> genre, filteredTracks |-> <<>>, matched |-> {}, exhausted |-> FALSE,
     stored |-> FALSE, outcome |-> NoResult, ret |-> <<>>]

TracksInit ==
    /\ InitGateway
    /\ caching = FALSE
    /\ scan = NoScan
    /\ mat = NoMat
    /\ rec = NoRec
    /\ \E source \in Sources, total \in Totals, random \in BOOLEAN, genre \in BOOLEAN :
         \E offset \in Offsets(random) :
            trackCall = GetTracksCall(source, total, offset, genre)
    /\ genres = NoGenres
    /\ cred = NoCred
    /\ bg = NoBg
    /\ InitMore

\* redis.get(cacheKey): a cached answer is returned as it is; an error of the
\* read is thrown by the catch block as 'Failed to retrieve tracks'
TracksCacheGet(answer) ==
    /\ trackCall.pc = "entry"
    /\ trackCall' = IF answer = "hit"
                 THEN [trackCall EXCEPT !.pc = "done", !.outcome = "cached"]
                 ELSE IF answer = "err"
                 THEN [trackCall EXCEPT !.pc = "done", !.outcome = "thrown"]
                 ELSE [trackCall EXCEPT !.pc = IF trackCall.genre THEN "loop" ELSE "plain"]
    /\ UNCHANGED <<gwVars, userCalls, scan, mat, rec, genres, cred, bg, moreVars>>

\* if (!genre): one page through the gateway, setex, return this.tracks.body
TracksPlain(ok) ==
    /\ trackCall.pc = "plain"
    /\ trackCall' = IF ok
                 THEN [trackCall EXCEPT !.pc = "done", !.outcome = "returned", !.stored = TRUE,
                                     !.ret = Items(trackCall.source, trackCall.total, trackCall.offset)]
                 ELSE [trackCall EXCEPT !.pc = "done", !.outcome = "thrown"]
    /\ UNCHANGED <<gwVars, userCalls, scan, mat, rec, genres, cred, bg, moreVars>>

\* the test of the while loop: the next page is asked for through the
\* gateway, or the loop is over
TracksLoop ==
    /\ trackCall.pc = "loop"
    /\ trackCall' = IF Len(trackCall.filteredTracks) < MinMatches
                 THEN [trackCall EXCEPT !.pc = "page"]
                 ELSE [trackCall EXCEPT !.pc = "store"]
    /\ UNCHANGED <<gwVars, userCalls, scan, mat, rec, genres, cred, bg, moreVars>>

\* the page is there: this.filteredTracks = await this.filterTracksByGenre(
\* this.tracks.body.items, genre, id); offset += total
TracksPage(ok) ==
    /\ trackCall.pc = "page"
    /\ LET items == Items(trackCall.source, trackCall.total, trackCall.offset)
           found == FilterTracksByGenre(items, trackCall.source)
       IN trackCall' =
            IF ok
            THEN [trackCall EXCEPT !.pc = "loop", !.filteredTracks = found,
                                !.offset = Advance(trackCall.offset, trackCall.total),
                                !.matched = @ \cup {found[i] : i \in 1..Len(found)},
                                !.exhausted = (items = <<>>)]
            ELSE [trackCall EXCEPT !.pc = "done", !.outcome = "thrown"]
    /\ UNCHANGED <<gwVars, userCalls, scan, mat, rec, genres, cred, bg, moreVars>>

\* redis.setex(cacheKey, 3600, ...), whose error is logged, and
\* return {items: this.filteredTracks}
TracksStore(ok) ==
    /\ trackCall.pc = "store"
    /\ trackCall' = [trackCall EXCEPT !.pc = "done", !.outcome = "returned", !.stored = ok,
                                !.ret = trackCall.filteredTracks]
    /\ UNCHANGED <<gwVars, userCalls, scan, mat, rec, genres, cred, bg, moreVars>>

TracksNext ==
    \/ \E answer \in {"hit", "miss", "err"} : TracksCacheGet(answer)
    \/ \E ok \in BOOLEAN : TracksPlain(ok)
    \/ TracksLoop
    \/ \E ok \in BOOLEAN : TracksPage(ok)
    \/ \E ok \in BOOLEAN : TracksStore(ok)

TracksSpec == TracksInit /\ [][TracksNext]_vars

\* every step of getTracks that can be taken is taken in the end
TracksLiveSpec == TracksSpec /\ WF_vars(TracksNext)

\* ---------------------------------------------------------------------------
\* getArtistGenres(artistIds, userId): the genres of the artists, from the
\* cache, else from the artists tables, else from the upstream; one call after
\* the other, with time passing between them.

\* artist.body.genres of getArtist(id)
UpstreamGenres(a) == IF a = "x" THEN <<"rock">> ELSE <<"pop", "rock">>

\* no row of the join of artists, artist_genres and genres for an artist
NoRows == <<>>

GenresInit ==
    /\ InitGateway
    /\ caching = FALSE
    /\ scan = NoScan
    /\ mat = NoMat
    /\ rec = NoRec
    /\ trackCall = NoTracks
    /\ \E stored \in SUBSET Artists :
          genres = [pc |-> "idle", artistIds |-> {}, genresMap |-> <<>>,
                    table |-> [a \in Artists |->
                                 IF a \in stored THEN UpstreamGenres(a) ELSE NoRows],
                    missing |-> {}, fromUpstream |-> {}, resolved |-> {}, again |-> {},
                    n |-> 0, outcome |-> NoResult]
    /\ cred = NoCred
    /\ bg = NoBg
    /\ InitMore

\* genresMap[artistId] = value(artistId), for each artist of the set
Assign(genresMap, artists, value) ==
    [a \in DOMAIN genresMap \cup artists |->
        IF a \in artists THEN value[a] ELSE genresMap[a]]

\* the call and its pipeline of GETs: the map gets the cached genres; without
\* a missing artist the map is returned. A GET that fails is logged and its
\* artist is missing
GetArtistGenres(artistIds, failing) ==
    /\ genres.pc \in {"idle", "done"}
    /\ genres.n < MaxGenreCalls
    /\ LET hits == {a \in artistIds \ failing : RedisGet(ArtistKey(a)) # NoEntry}
           genresMap == Assign(<<>>, hits,
                               [a \in hits |-> JSONParse(RedisGet(ArtistKey(a)).val)])
       IN genres' = [genres EXCEPT !.pc = IF hits = artistIds THEN "done" ELSE "db",
                                   !.artistIds = artistIds,
                                   !.genresMap = genresMap,
                                   !.missing = artistIds \ hits,
                                   !.fromUpstream = {},
                                   !.n = @ + 1,
                                   !.outcome = IF hits = artistIds THEN "returned"
                                               ELSE NoResult]
    /\ UNCHANGED <<gwVars, userCalls, scan, mat, rec, trackCall, cred, bg, moreVars>>

\* the query on the artists tables for the missing artists; the artists still
\* missing are asked for through the gateway, all at once
GenresDb ==
    /\ genres.pc = "db"
    /\ LET found == {a \in genres.missing : genres.table[a] # NoRows}
           stillMissing == genres.missing \ found
       IN genres' = [genres EXCEPT
                       !.pc = IF stillMissing = {} THEN "done" ELSE "upstream",
                       !.genresMap = Assign(@, found, genres.table),
                       !.missing = stillMissing,
                       !.again = @ \cup (stillMissing \cap genres.resolved),
                       !.outcome = IF stillMissing = {} THEN "returned" ELSE NoResult]
    /\ UNCHANGED <<gwVars, userCalls, scan, mat, rec, trackCall, cred, bg, moreVars>>

\* Promise.all of the getArtist calls is over: the genres are put into the map
\* and, by pipeline.setex, into the cache; or one call has thrown
GenresUpstream(ok) ==
    /\ genres.pc = "upstream"
    /\ IF ok
       THEN /\ genres' = [genres EXCEPT
                            !.pc = "done", !.outcome = "returned",
                            !.genresMap = Assign(@, genres.missing,
                                                [a \in Artists |-> UpstreamGenres(a)]),
                            !.fromUpstream = genres.missing,
                            !.resolved = @ \cup genres.missing]
            /\ cache' = [k \in Keys |->
                           IF \E a \in genres.missing : k = ArtistKey(a)
                           THEN [val |-> JSONStringify(UpstreamGenres(k[2])),
                                 exp |-> now + ArtistTTL]
                           ELSE cache[k]]
       ELSE /\ genres' = [genres EXCEPT !.pc = "done", !.outcome = "thrown"]
            /\ UNCHANGED cache
    /\ UNCHANGED <<now, db, client, isRateLimited, rateLimitPromise, timers, apiCallCount,
                   issued, caching, calls, hist, obs>>
    /\ UNCHANGED <<userCalls, scan, mat, rec, trackCall, cred, bg, moreVars>>

\* time passes between two calls
GenresElapse(t) ==
    /\ genres.pc \in {"idle", "done"}
    /\ Elapse(t)

GenresNext ==
    \/ \E artistIds \in SUBSET Artists, failing \in {{}, Artists} :
          GetArtistGenres(artistIds, failing)
    \/ GenresDb
    \/ \E ok \in BOOLEAN : GenresUpstream(ok)
    \/ \E t \in Instants : GenresElapse(t)

GenresSpec == GenresInit /\ [][GenresNext]_vars

\* ---------------------------------------------------------------------------
\* authorizationCodeGrant(code, id) and deleteUser(id), one call after the
\* other, on the users table the gateway reads and refreshes; calls of the
\* gateway run between and during them. users.user_id is unique.

NoApiToken == <<"sha256", "none", -1>>

\* the calls of the gateway that run beside the grants and deletes
CredCalls == {"c1"}

CredInit ==
    /\ InitGateway
    /\ caching = FALSE
    /\ scan = NoScan
    /\ mat = NoMat
    /\ rec = NoRec
    /\ trackCall = NoTracks
    /\ genres = NoGenres
    /\ cred = [pc |-> "idle", op |-> NoResult, id |-> "u1", tok |-> NoTok,
               api_token |-> NoApiToken, n |-> 0, storeFailed |-> FALSE,
               fault |-> FALSE, outcome |-> NoResult, ret |-> NoApiToken]
    /\ bg = NoBg
    /\ InitMore

\* authorizationCodeGrant(code, id) is called: the code is sent to the token endpoint
AuthorizationCodeGrant(id) ==
    /\ cred.pc \in {"idle", "done"}
    /\ cred.n < MaxCredOps
    /\ cred' = [cred EXCEPT !.pc = "exchange", !.op = "grant", !.id = id, !.n = @ + 1,
                            !.tok = NoTok, !.api_token = NoApiToken,
                            !.storeFailed = FALSE, !.fault = FALSE,
                            !.outcome = NoResult, !.ret = NoApiToken]
    /\ UNCHANGED <<gwVars, userCalls, scan, mat, rec, trackCall, genres, bg, moreVars>>

\* the token endpoint answers with a new pair of tokens, and the api token is
\* derived; or it fails, and the error is logged and thrown again
GrantExchanged(ok) ==
    /\ cred.pc = "exchange"
    /\ LET t == [at |-> Len(issued) + 1, rt |-> Len(issued) + 1]
       IN IF ok
          THEN /\ cred' = [cred EXCEPT !.pc = "insert", !.tok = t,
                                       !.api_token = Sha256(cred.id, t.at)]
               /\ issued' = Append(issued, t)
          ELSE /\ cred' = [cred EXCEPT !.pc = "done", !.outcome = "thrown"]
               /\ issued' = Append(issued, NoTok)
    /\ UNCHANGED <<now, db, client, isRateLimited, rateLimitPromise, timers, apiCallCount,
                   caching, cache, calls, hist, obs>>
    /\ UNCHANGED <<userCalls, scan, mat, rec, trackCall, genres, bg, moreVars>>

\* a store error that is returned as a value: the caller goes on
ReturnErr(c) == [c EXCEPT !.storeFailed = TRUE]

\* insertUserIntoDatabase: db('users').insert({...}) fails when the store
\* fails or when the user_id has a row already; the catch returns the error.
\* Then authorizationCodeGrant returns {api_token, userId: id}
GrantInserted(fault) ==
    /\ cred.pc = "insert"
    /\ LET failed == fault \/ db[cred.id] # NoRow
           c == [cred EXCEPT !.pc = "done", !.outcome = "returned", !.fault = fault,
                             !.ret = cred.api_token]
       IN /\ cred' = IF failed THEN ReturnErr(c) ELSE c
          /\ db' = IF failed THEN db
                   ELSE [db EXCEPT ![cred.id] =
                           [at |-> cred.tok.at, rt |-> cred.tok.rt, upd |-> now,
                            api |-> cred.api_token]]
    /\ UNCHANGED <<now, client, isRateLimited, rateLimitPromise, timers, apiCallCount,
                   issued, caching, cache, calls, hist, obs>>
    /\ UNCHANGED <<userCalls, scan, mat, rec, trackCall, genres, bg, moreVars>>

\* deleteUser(id) is called: db('users').where('user_id', id).del()
DeleteUser(id) ==
    /\ cred.pc \in {"idle", "done"}
    /\ cred.n < MaxCredOps
    /\ cred' = [cred EXCEPT !.pc = "delete", !.op = "delete", !.id = id, !.n = @ + 1,
                            !.tok = NoTok, !.api_token = NoApiToken,
                            !.storeFailed = FALSE, !.fault = FALSE,
                            !.outcome = NoResult, !.ret = NoApiToken]
    /\ UNCHANGED <<gwVars, userCalls, scan, mat, rec, trackCall, genres, bg, moreVars>>

\* the delete is over; the .catch of a failed delete returns the error
UserDeleted(fault) ==
    /\ cred.pc = "delete"
    /\ LET c == [cred EXCEPT !.pc = "done", !.outcome = "returned", !.fault = fault]
       IN /\ cred' = IF fault THEN ReturnErr(c) ELSE c
          /\ db' = IF fault THEN db ELSE [db EXCEPT ![cred.id] = NoRow]
    /\ UNCHANGED <<now, client, isRateLimited, rateLimitPromise, timers, apiCallCount,
                   issued, caching, cache, calls, hist, obs>>
    /\ UNCHANGED <<userCalls, scan, mat, rec, trackCall, genres, bg, moreVars>>

\* The upstream answers an operation with success or with an error other than 429.
CredNext ==
    \/ \E id \in Users : AuthorizationCodeGrant(id)
    \/ \E ok \in BOOLEAN : GrantExchanged(ok)
    \/ \E fault \in BOOLEAN : GrantInserted(fault)
    \/ \E id \in Users : DeleteUser(id)
    \/ \E fault \in BOOLEAN : UserDeleted(fault)
    \/ \E c \in CredCalls, u \in Users : Start(c, u, "getPlaylist")
    \/ \E c \in CredCalls : Lookup(c)
    \/ \E c \in CredCalls, ok \in BOOLEAN, rotated \in BOOLEAN : ProExchange(c, ok, rotated)
    \/ \E c \in CredCalls : ProUpdate(c)
    \/ \E c \in CredCalls, o \in {"ok", "err"} : Operation(c, o, 1)
    \/ \E c \in CredCalls : GetRefreshToken(c)
    \/ \E c \in CredCalls, ok \in BOOLEAN, rotated \in BOOLEAN : HtrExchange(c, ok, rotated)
    \/ \E c \in CredCalls : HtrUpdate(c)

CredSpec == CredInit /\ [][CredNext]_vars

\* ---------------------------------------------------------------------------
\* addTracksToPlaylistInBackground(id, playlistId, filters): the saved tracks
\* are fetched page by page, and after each page the tracks of each filter's
\* artist are added to the playlist by addFilteredTracksToPlaylist. A saved
\* track is named by its place in the library and has one artist.

FilterArtists == {"A", "B"}

\* the library: the artist of each saved track
Libraries == UNION {[1..n -> FilterArtists] : n \in 0..MaxLiked}

\* filter.split(':')[1] of each filter; "" for a filter without an artist
FilterLists ==
    UNION {[1..n -> FilterArtists \cup {""}] : n \in 1..2}

BgCall(library, playlistTracks, filters) ==
    [pc |-> "playlist", library |-> library, playlistTracks |-> playlistTracks,
     filters |-> filters, likedTracks |-> <<>>, addedTracks |-> {}, total |-> 1,
     offset |-> 0, foundInPlaylist |-> FALSE, f |-> 1, filteredTracks |-> <<>>,
     i |-> 0, songUris |-> <<>>, failed |-> FALSE, late |-> 0,
     outcome |-> NoResult]

BgInit ==
    /\ InitGateway
    /\ caching = FALSE
    /\ scan = NoScan
    /\ mat = NoMat
    /\ rec = NoRec
    /\ trackCall = NoTracks
    /\ genres = NoGenres
    /\ cred = NoCred
    /\ InitMore
    /\ \E library \in Libraries, filters \in FilterLists :
         \E playlistTracks \in {{}} \cup {{p} : p \in 1..Len(library)} :
            bg = BgCall(library, playlistTracks, filters)

\* a request sent after a page fetch or an insertion has failed
Late(b) == IF b.failed THEN b.late + 1 ELSE b.late

\* songs.some(song => ...): the songs before the first one that is in the
\* playlist are pushed to likedTracks
RECURSIVE Pushed(_, _)
Pushed(songs, playlistTracks) ==
    IF songs = <<>> \/ Head(songs) \in playlistTracks THEN <<>>
    ELSE <<Head(songs)>> \o Pushed(Tail(songs), playlistTracks)

\* getPlaylistTracks(playlistId) through the gateway: its error leaves the function
BgPlaylist(ok) ==
    /\ bg.pc = "playlist"
    /\ bg' = IF ok THEN [bg EXCEPT !.pc = "while"]
             ELSE [bg EXCEPT !.pc = "done", !.outcome = "thrown"]
    /\ UNCHANGED <<gwVars, userCalls, scan, mat, rec, trackCall, genres, cred, moreVars>>

\* while (likedTracks.length < total && !foundInPlaylist): the next page of
\* saved tracks is asked for; after the loop the function returns
BgWhile ==
    /\ bg.pc = "while"
    /\ bg' = IF Len(bg.likedTracks) < bg.total /\ ~bg.foundInPlaylist
             THEN [bg EXCEPT !.pc = "page", !.late = Late(bg)]
             ELSE [bg EXCEPT !.pc = "done", !.outcome = "returned"]
    /\ UNCHANGED <<gwVars, userCalls, scan, mat, rec, trackCall, genres, cred, moreVars>>

\* the page is there; or the call has thrown: return console.error(...)
BgPage(ok) ==
    /\ bg.pc = "page"
    /\ LET songs == Items(bg.library, MAX, bg.offset)
           pushed == Pushed(songs, bg.playlistTracks)
       IN bg' = IF ok
                THEN [bg EXCEPT !.pc = "filter", !.f = 1,
                                !.total = Len(bg.library),
                                !.offset = @ + MAX,
                                !.likedTracks = @ \o pushed,
                                !.foundInPlaylist = Len(pushed) < Len(songs)]
                ELSE [bg EXCEPT !.pc = "done", !.outcome = "returned", !.failed = TRUE]
    /\ UNCHANGED <<gwVars, userCalls, scan, mat, rec, trackCall, genres, cred, moreVars>>

\* for (const filter of filters): a filter without an artist ends the
\* function; else filterTracksByArtist asks for the artist through the gateway
BgFilter ==
    /\ bg.pc = "filter"
    /\ bg' = IF bg.f > Len(bg.filters) THEN [bg EXCEPT !.pc = "while"]
             ELSE IF bg.filters[bg.f] = ""
             THEN [bg EXCEPT !.pc = "done", !.outcome = "returned"]
             ELSE [bg EXCEPT !.pc = "artist"]
    /\ UNCHANGED <<gwVars, userCalls, scan, mat, rec, trackCall, genres, cred, moreVars>>

\* getArtistId is over: the liked tracks of the artist go to
\* addFilteredTracksToPlaylist; its error leaves the function
BgArtist(ok) ==
    /\ bg.pc = "artist"
    /\ bg' = IF ok
             THEN [bg EXCEPT !.pc = "chunk", !.i = 0,
                             !.filteredTracks =
                                 SelectSeq(bg.likedTracks,
                                           LAMBDA t : bg.library[t] = bg.filters[bg.f])]
             ELSE [bg EXCEPT !.pc = "done", !.outcome = "thrown"]
    /\ UNCHANGED <<gwVars, userCalls, scan, mat, rec, trackCall, genres, cred, moreVars>>

\* for (let i = 0; i < filteredTracks.length; i += chunkSize): the URIs of the
\* chunk that have not been added yet are sent, if there are any
BgChunk ==
    /\ bg.pc = "chunk"
    /\ LET songUris == SelectSeq(Slice(bg.filteredTracks, bg.i, bg.i + ChunkSize),
                                 LAMBDA uri : uri \notin bg.addedTracks)
       IN bg' = IF bg.i >= Len(bg.filteredTracks)
                THEN [bg EXCEPT !.pc = "filter", !.f = @ + 1]
                ELSE IF songUris = <<>> THEN [bg EXCEPT !.i = @ + ChunkSize]
                ELSE [bg EXCEPT !.pc = "insert", !.songUris = songUris, !.late = Late(bg)]
    /\ UNCHANGED <<gwVars, userCalls, scan, mat, rec, trackCall, genres, cred, moreVars>>

\* addTracksToPlaylist is over: the URIs are added to addedTracks; or the call
\* has thrown: the error is logged, addFilteredTracksToPlaylist returns, and
\* the loop over the filters goes on
BgInsert(ok) ==
    /\ bg.pc = "insert"
    /\ bg' = IF ok
             THEN [bg EXCEPT !.pc = "chunk", !.i = @ + ChunkSize,
                             !.addedTracks = @ \cup {bg.songUris[k] : k \in 1..Len(bg.songUris)}]
             ELSE [bg EXCEPT !.pc = "filter", !.f = @ + 1, !.failed = TRUE]
    /\ UNCHANGED <<gwVars, userCalls, scan, mat, rec, trackCall, genres, cred, moreVars>>

BgNext ==
    \/ \E ok \in BOOLEAN : BgPlaylist(ok)
    \/ BgWhile
    \/ \E ok \in BOOLEAN : BgPage(ok)
    \/ BgFilter
    \/ \E ok \in BOOLEAN : BgArtist(ok)
    \/ BgChunk
    \/ \E ok \in BOOLEAN : BgInsert(ok)

BgSpec == BgInit /\ [][BgNext]_vars

\* ---------------------------------------------------------------------------
\* Two users with credential rows, each with one makeSpotifyApiCall on the one
\* shared service instance (routes.js creates a single Spotify object for all
\* requests).  No 429 is answered here, so no timer runs and the clock stands.

\* the access and refresh token a user was granted before the run
GrantedToken(u) == IF u = "u1" THEN 0 ELSE -2

\* each call is made for a user of its own
UserOf(c) == IF c = "c1" THEN "u1" ELSE "u2"

ShareInit ==
    /\ now = StartTime
    /\ \E issuedAt \in [Users -> {0, StartTime}] :
          db = [u \in Users |->
                  [at |-> GrantedToken(u), rt |-> GrantedToken(u), upd |-> issuedAt[u],
                   api |-> Sha256(u, GrantedToken(u))]]
    /\ client = NoTok
    /\ isRateLimited = FALSE
    /\ rateLimitPromise = 0
    /\ timers = <<>>
    /\ apiCallCount = 0
    /\ issued = <<>>
    /\ cache = [k \in Keys |-> NoEntry]
    /\ calls = [c \in Calls |-> InitCall]
    /\ hist = [c \in Calls |-> InitHist]
    /\ obs = [early |-> FALSE, storm |-> FALSE, lastWrite |-> <<>>, htrWrites |-> 0,
              proWrites |-> 0]
    /\ userCalls = [c \in Calls |-> InitUserCall]
    /\ scan = NoScan
    /\ mat = NoMat
    /\ rec = NoRec
    /\ InitOthers
    /\ caching = FALSE

ShareNext ==
    \/ \E c \in Calls : Start(c, UserOf(c), "getPlaylist")
    \/ \E c \in Calls : Lookup(c)
    \/ \E c \in Calls, ok \in BOOLEAN, rotated \in BOOLEAN : ProExchange(c, ok, rotated)
    \/ \E c \in Calls : ProUpdate(c)
    \/ \E c \in Calls, o \in {"ok", "err"} : Operation(c, o, 1)
    \/ \E c \in Calls : GetRefreshToken(c)
    \/ \E c \in Calls, ok \in BOOLEAN, rotated \in BOOLEAN : HtrExchange(c, ok, rotated)
    \/ \E c \in Calls : HtrUpdate(c)

ShareSpec == ShareInit /\ [][ShareNext]_vars

\* ---------------------------------------------------------------------------
\* filterTracksByGenre(songs, genre, id): for each song in turn, one lookup per
\* artist of the song is started (cache first, then getArtist and setex), and
\* Promise.any settles with the value of the lookup that is fulfilled first;
\* the other lookups go on while the loop handles the next songs.

\* song.track.artists of the songs handed in, primary artist first
ArtistLists == {<<"x">>, <<"y">>, <<"x", "y">>, <<"y", "x">>}
SongLists == {<<l>> : l \in ArtistLists} \cup {<<l, m>> : l, m \in ArtistLists}
GenreLists == {<<"rock">>, <<"pop">>}

\* artistGenres.includes(genre)
Includes(artistGenres, genre) == \E k \in 1..Len(artistGenres) : artistGenres[k] = genre

\* the lookups of the artists of song i, each at its redis read
Lookups(songs, i) == [t \in {<<i, j>> : j \in 1..Len(songs[i])} |-> [pc |-> "get", val |-> <<>>]]

FilterInit ==
    /\ now = StartTime
    /\ db = [u \in Users |-> NoRow]
    /\ client = NoTok
    /\ isRateLimited = FALSE
    /\ rateLimitPromise = 0
    /\ timers = <<>>
    /\ apiCallCount = 0
    /\ issued = <<>>
    /\ caching = FALSE
    /\ calls = [c \in Calls |-> InitCall]
    /\ hist = [c \in Calls |-> InitHist]
    /\ obs = [early |-> FALSE, storm |-> FALSE, lastWrite |-> <<>>, htrWrites |-> 0,
              proWrites |-> 0]
    /\ userCalls = [c \in Calls |-> InitUserCall]
    /\ scan = NoScan
    /\ mat = NoMat
    /\ rec = NoRec
    /\ trackCall = NoTracks
    /\ genres = NoGenres
    /\ cred = NoCred
    /\ bg = NoBg
    /\ af = NoFeatures
    /\ gt = NoGetTracks
    /\ lk = NoLiked
    /\ \E songs \in SongLists, upstream \in [Artists -> GenreLists], cached \in SUBSET Artists :
          /\ cache = [k \in Keys |->
                        IF \E a \in cached : k = ArtistKey(a)
                        THEN [val |-> JSONStringify(upstream[CHOOSE a \in cached : k = ArtistKey(a)]),
                              exp |-> now + ArtistTTL]
                        ELSE NoEntry]
          /\ flt = [pc |-> "song", songs |-> songs, upstream |-> upstream, genre |-> "rock",
                    i |-> 1, tasks |-> Lookups(songs, 1), filteredTracks |-> <<>>,
                    first |-> <<>>, failed |-> {}, hits |-> {}]

\* a lookup returns: its promise is fulfilled with v.  The first fulfilment
\* among the lookups of the current song settles Promise.any: found = v,
\* if (found) filteredTracks.push(song), and the loop goes to the next song
Fulfil(f, t, v) ==
    LET g == [f EXCEPT !.tasks[t] = [pc |-> "done", val |-> <<>>]]
    IN IF f.pc = "song" /\ t[1] = f.i
       THEN LET h == [g EXCEPT !.filteredTracks = IF v THEN Append(@, f.i) ELSE @,
                               !.first = Append(@, t[2])]
            IN IF f.i = Len(f.songs)
               THEN [h EXCEPT !.pc = "done"]
               ELSE [h EXCEPT !.i = @ + 1, !.tasks = @ @@ Lookups(f.songs, f.i + 1)]
       ELSE g

ArtistOf(f, t) == f.songs[t[1]][t[2]]

\* the order in which the lookups were started, hence in which their redis
\* reads were sent on the one connection
Earlier(e, t) == e[1] < t[1] \/ (e[1] = t[1] /\ e[2] < t[2])

\* redisClient.get(cacheKey), answered in the order of sending: a hit returns
\* artistGenres.includes(genre)
FltGet(t) ==
    /\ flt.pc # "idle"
    /\ t \in DOMAIN flt.tasks
    /\ flt.tasks[t].pc = "get"
    /\ \A e \in DOMAIN flt.tasks : Earlier(e, t) => flt.tasks[e].pc # "get"
    /\ LET e == RedisGet(ArtistKey(ArtistOf(flt, t)))
       IN flt' = IF e # NoEntry
                 THEN Fulfil([flt EXCEPT !.hits = @ \cup {t}], t,
                             Includes(JSONParse(e.val), flt.genre))
                 ELSE [flt EXCEPT !.tasks[t].pc = "upstream"]
    /\ UNCHANGED <<gwVars, userCalls, scan, mat, rec, trackCall, genres, cred, bg, af, gt, lk>>

\* makeSpotifyApiCall(() => getArtist(songArtist.id), id): artist.body.genres,
\* or the catch block: return false
FltArtist(t, ok) ==
    /\ flt.pc # "idle"
    /\ t \in DOMAIN flt.tasks
    /\ flt.tasks[t].pc = "upstream"
    /\ flt' = IF ok
              THEN [flt EXCEPT !.tasks[t] = [pc |-> "setex",
                                             val |-> flt.upstream[ArtistOf(flt, t)]]]
              ELSE Fulfil([flt EXCEPT !.failed = @ \cup {t}], t, FALSE)
    /\ UNCHANGED <<gwVars, userCalls, scan, mat, rec, trackCall, genres, cred, bg, af, gt, lk>>

\* await redisClient.setex(cacheKey, 3600, JSON.stringify(artistGenres)); then
\* return artistGenres.includes(genre)
FltSetex(t) ==
    /\ flt.pc # "idle"
    /\ t \in DOMAIN flt.tasks
    /\ flt.tasks[t].pc = "setex"
    /\ cache' = Setex(ArtistKey(ArtistOf(flt, t)), ArtistTTL, JSONStringify(flt.tasks[t].val))
    /\ flt' = Fulfil(flt, t, Includes(flt.tasks[t].val, flt.genre))
    /\ UNCHANGED <<now, db, client, isRateLimited, rateLimitPromise, timers, apiCallCount,
                   issued, caching, calls, hist, obs>>
    /\ UNCHANGED <<userCalls, scan, mat, rec, trackCall, genres, cred, bg, af, gt, lk>>

Tasks == {<<i, j>> : i \in 1..2, j \in 1..2}

FilterNext ==
    \/ \E t \in Tasks : FltGet(t)
    \/ \E t \in Tasks, ok \in BOOLEAN : FltArtist(t, ok)
    \/ \E t \in Tasks : FltSetex(t)

FilterSpec == FilterInit /\ [][FilterNext]_vars

\* ---------------------------------------------------------------------------
\* getAudioFeatures(tracksIds, id): batches of `limit` ids are sent through the
\* gateway while fewer entries than ids have been collected.

\* the track ids handed in: n distinct ids
IdLists == {[k \in 1..n |-> k] : n \in 0..MaxIds}

FeaturesCall(tracksIds) ==
    [pc |-> "while", tracksIds |-> tracksIds, total |-> Len(tracksIds), offset |-> 0,
     audioFeatures |-> <<>>, batches |-> <<>>, responses |-> <<>>, outcome |-> NoResult]

FeaturesInit ==
    /\ InitGateway
    /\ caching = FALSE
    /\ scan = NoScan
    /\ mat = NoMat
    /\ rec = NoRec
    /\ trackCall = NoTracks
    /\ genres = NoGenres
    /\ cred = NoCred
    /\ bg = NoBg
    /\ flt = NoFilter
    /\ gt = NoGetTracks
    /\ lk = NoLiked
    /\ \E tracksIds \in IdLists : af = FeaturesCall(tracksIds)

\* while (audioFeatures.length < total) { ... } return audioFeatures
FeaturesWhile ==
    /\ af.pc = "while"
    /\ af' = IF Len(af.audioFeatures) < af.total
             THEN [af EXCEPT !.pc = "call"]
             ELSE [af EXCEPT !.pc = "done", !.outcome = "ok"]
    /\ UNCHANGED <<gwVars, userCalls, scan, mat, rec, trackCall, genres, cred, bg, flt, gt, lk>>

\* response = await makeSpotifyApiCall(() => getAudioFeaturesForTracks(
\* tracksIds.slice(offset, offset + limit))); audioFeatures.push(...audio_features);
\* offset += limit.  The upstream answers with `entries` of the ids asked for.
FeaturesBatch(ok, entries) ==
    /\ af.pc = "call"
    /\ Len(af.batches) < MaxFeatureCalls
    /\ LET batch == Slice(af.tracksIds, af.offset, af.offset + FeatureLimit)
           response == SubSeq(batch, 1, entries)
       IN /\ entries <= Len(batch)
          /\ af' = IF ok
                   THEN [af EXCEPT !.pc = "while",
                                   !.batches = Append(@, batch),
                                   !.responses = Append(@, response),
                                   !.audioFeatures = @ \o response,
                                   !.offset = @ + FeatureLimit]
                   ELSE [af EXCEPT !.pc = "done", !.outcome = "GatewayError",
                                   !.batches = Append(@, batch)]
    /\ UNCHANGED <<gwVars, userCalls, scan, mat, rec, trackCall, genres, cred, bg, flt, gt, lk>>

FeaturesNext ==
    \/ FeaturesWhile
    \/ \E ok \in BOOLEAN, entries \in 0..FeatureLimit : FeaturesBatch(ok, entries)

FeaturesSpec == FeaturesInit /\ [][FeaturesNext]_vars

\* ---------------------------------------------------------------------------
\* Concurrent getTracks calls on the one service instance.  this.tracks and
\* this.filteredTracks are fields of that instance; every call has its own
\* request (user, method, amount, offset, genre), hence its own cache key.
\* A value is modelled by the call whose request it was fetched for.

\* [] as written by `this.tracks = []` / `this.filteredTracks = []` of a call
EmptyArray(c) == [owner |-> "none", by |-> c, len |-> 0]
\* the answer of the upstream to the request of call c, and its .body
TracksOf(c) == [owner |-> c, by |-> c, len |-> MAX]
\* [].body
Undefined == [owner |-> "undefined", by |-> "undefined", len |-> 0]
BodyOf(tracks) == IF tracks.owner = "none" THEN Undefined ELSE tracks
\* the songs filterTracksByGenre keeps of a page of call c
Filtered(c, enough) == [owner |-> c, by |-> c, len |-> IF enough THEN MinMatches ELSE 0]

GetTracksInit ==
    /\ InitGateway
    /\ caching = FALSE
    /\ scan = NoScan
    /\ mat = NoMat
    /\ rec = NoRec
    /\ trackCall = NoTracks
    /\ genres = NoGenres
    /\ cred = NoCred
    /\ bg = NoBg
    /\ flt = NoFilter
    /\ af = NoFeatures
    /\ lk = NoLiked
    /\ \E cached \in SUBSET Calls :
          gt = [pc |-> "run",
                tracks |-> EmptyArray("none"),
                filteredTracks |-> EmptyArray("none"),
                redis |-> [c \in Calls |-> IF c \in cached THEN TracksOf(c) ELSE Undefined],
                calls |-> [c \in Calls |->
                             [pc |-> "idle", genre |-> FALSE, pages |-> 0,
                              value |-> Undefined, outcome |-> NoResult, ret |-> Undefined]]]

\* getTracks is called: this.tracks = []; this.filteredTracks = []; then the
\* redis read is awaited
GtEntry(c, genre) ==
    /\ gt.pc = "run"
    /\ gt.calls[c].pc = "idle"
    /\ gt' = [gt EXCEPT !.tracks = EmptyArray(c), !.filteredTracks = EmptyArray(c),
                        !.calls[c].pc = "cacheGet", !.calls[c].genre = genre]
    /\ UNCHANGED <<gwVars, userCalls, scan, mat, rec, trackCall, genres, cred, bg, flt, af, lk>>

\* the while condition of the genre branch, read from the instance
GtWhile(g, c) ==
    IF g.filteredTracks.len < MinMatches
    THEN [g EXCEPT !.calls[c].pc = "page"]
    ELSE [g EXCEPT !.calls[c].pc = "setex", !.calls[c].value = g.filteredTracks]

\* if (cachedTracks) return cachedTracks; else the plain fetch or the loop
GtCacheGet(c) ==
    /\ gt.pc = "run"
    /\ gt.calls[c].pc = "cacheGet"
    /\ gt' = IF gt.redis[c] # Undefined
             THEN [gt EXCEPT !.calls[c].pc = "done", !.calls[c].outcome = "ok",
                             !.calls[c].ret = gt.redis[c]]
             ELSE IF gt.calls[c].genre THEN GtWhile(gt, c)
             ELSE [gt EXCEPT !.calls[c].pc = "fetch"]
    /\ UNCHANGED <<gwVars, userCalls, scan, mat, rec, trackCall, genres, cred, bg, flt, af, lk>>

\* this.tracks = await makeSpotifyApiCall(...); then JSON.stringify(this.tracks.body)
\* is evaluated and the setex awaited
GtFetch(c, ok) ==
    /\ gt.pc = "run"
    /\ gt.calls[c].pc = "fetch"
    /\ gt' = IF ok
             THEN [gt EXCEPT !.tracks = TracksOf(c), !.calls[c].pc = "setex",
                             !.calls[c].value = BodyOf(TracksOf(c))]
             ELSE [gt EXCEPT !.calls[c].pc = "done", !.calls[c].outcome = "Failed"]
    /\ UNCHANGED <<gwVars, userCalls, scan, mat, rec, trackCall, genres, cred, bg, flt, af, lk>>

\* this.tracks = await makeSpotifyApiCall(...); then filterTracksByGenre is
\* called with this.tracks.body.items and awaited
GtPage(c, ok) ==
    /\ gt.pc = "run"
    /\ gt.calls[c].pc = "page"
    /\ gt.calls[c].pages < MaxPages
    /\ gt' = IF ok
             THEN [gt EXCEPT !.tracks = TracksOf(c), !.calls[c].pc = "filter",
                             !.calls[c].pages = @ + 1]
             ELSE [gt EXCEPT !.calls[c].pc = "done", !.calls[c].outcome = "Failed"]
    /\ UNCHANGED <<gwVars, userCalls, scan, mat, rec, trackCall, genres, cred, bg, flt, af, lk>>

\* this.filteredTracks = await filterTracksByGenre(...); offset += total; the
\* while condition; after the loop JSON.stringify({items: this.filteredTracks})
GtFilter(c, enough) ==
    /\ gt.pc = "run"
    /\ gt.calls[c].pc = "filter"
    /\ gt' = GtWhile([gt EXCEPT !.filteredTracks = Filtered(c, enough)], c)
    /\ UNCHANGED <<gwVars, userCalls, scan, mat, rec, trackCall, genres, cred, bg, flt, af, lk>>

\* return this.tracks.body / return {items: this.filteredTracks}
ReturnField(g, c) == IF g.calls[c].genre THEN g.filteredTracks ELSE BodyOf(g.tracks)

\* await redis.setex(cacheKey, 3600, ...) has stored the value; the return
\* statement reads the instance field
GtSetex(c) ==
    /\ gt.pc = "run"
    /\ gt.calls[c].pc = "setex"
    /\ gt' = [gt EXCEPT !.redis[c] = gt.calls[c].value,
                        !.calls[c].pc = "done", !.calls[c].outcome = "ok",
                        !.calls[c].ret = ReturnField(gt, c)]
    /\ UNCHANGED <<gwVars, userCalls, scan, mat, rec, trackCall, genres, cred, bg, flt, af, lk>>

GetTracksNext ==
    \/ \E c \in Calls, genre \in BOOLEAN : GtEntry(c, genre)
    \/ \E c \in Calls : GtCacheGet(c)
    \/ \E c \in Calls, ok \in BOOLEAN : GtFetch(c, ok)
    \/ \E c \in Calls, ok \in BOOLEAN : GtPage(c, ok)
    \/ \E c \in Calls, enough \in BOOLEAN : GtFilter(c, enough)
    \/ \E c \in Calls : GtSetex(c)

GetTracksSpec == GetTracksInit /\ [][GetTracksNext]_vars

\* ---------------------------------------------------------------------------
\* The liked_tracks table and the code that reads and writes it: the
\* database-backed findLikedFromMonth and deleteIfNotLiked.  A row of
\* liked_tracks is [id, user, track, at, month]: track is the key tracks.id of
\* the track, a number; the upstream knows the track by its Spotify id
\* tracks.track_id, a string.  The table has no unique key but id.
LkTracks == {1, 2, 3}

\* tracks.track_id of the track with key tracks.id = t
Sid(t) == CASE t = 1 -> "2aUx" [] t = 2 -> "Kx7b" [] OTHER -> "1zQe"
\* the number MySQL compares an integer column with when it is given a string:
\* the value of the leading digits, 0 when there are none
ToNumber(str) == CASE str = "2aUx" -> 2 [] str = "1zQe" -> 1 [] OTHER -> 0
\* tracks.genre_id is not null: the artist of the track has a genre
HasGenre(t) == t # 2

\* new Date(song.added_at).getMonth() + 1
MonthOf(at) == (at \div (2 * DaysPerMonth)) + 1
\* a time of day on the first day of a month, after 00:00
MidMonth(month) == Date(month - 1, 1) + 1

\* db('liked_tracks') ... .where({user_id: userId, month: targetMonth, year: targetYear})
RowsOf(table, user, month) == {r \in table : r.user = user /\ r.month = month}

TracksIn(rows) == {r.track : r \in rows}
SavedTracks(saved) == {saved[k].track : k \in 1..Len(saved)}

LikedCall ==
    [pc |-> "idle", user |-> "u1", month |-> 1, trackIds |-> {}, remove |-> {},
     offset |-> 0, total |-> 1, songs |-> <<>>, j |-> 1, likedTracks |-> <<>>,
     savedAtCall |-> <<>>, alone |-> TRUE, ret |-> {}, result |-> NoResult]

\* the rows a table holds for some (user, track) pairs, all of month 1
TableOf(pairs) ==
    {[id |-> (IF p[1] = "u1" THEN 0 ELSE 3) + p[2], user |-> p[1], track |-> p[2],
      at |-> MidMonth(1), month |-> 1] : p \in pairs}

LkInitGateway ==
    /\ InitGateway
    /\ caching = FALSE
    /\ scan = NoScan
    /\ mat = NoMat
    /\ rec = NoRec
    /\ trackCall = NoTracks
    /\ genres = NoGenres
    /\ cred = NoCred
    /\ bg = NoBg
    /\ flt = NoFilter
    /\ af = NoFeatures
    /\ gt = NoGetTracks

\* deleteIfNotLiked(trackIds, id, userId, month, year) is called for user u1
\* with the rows of the month, with any rows of the two users in the table
\* and any set of tracks still liked by u1; the server runs in strict SQL
\* mode or not
DnlInit ==
    /\ LkInitGateway
    /\ \E pairs \in SUBSET (Users \X LkTracks), liked \in SUBSET LkTracks, strict \in BOOLEAN :
          /\ RowsOf(TableOf(pairs), "u1", 1) # {}
          /\ \E order \in [1..Cardinality(liked) -> liked] :
                /\ \A i, k \in 1..Cardinality(liked) : i < k => order[i] < order[k]
                /\ lk = [pc |-> "run", table |-> TableOf(pairs), table0 |-> TableOf(pairs),
                         nextId |-> 7, strict |-> strict, likes |-> 0,
                         saved |-> [k \in 1..Cardinality(liked) |->
                                       [track |-> order[k], at |-> MidMonth(1)]],
                         calls |-> [c \in Calls |->
                                      IF c = "c1"
                                      THEN [LikedCall EXCEPT
                                               !.pc = "dnlCheck",
                                               !.trackIds = RowsOf(TableOf(pairs), "u1", 1)]
                                      ELSE LikedCall]]

LkUnchanged ==
    UNCHANGED <<gwVars, userCalls, scan, mat, rec, trackCall, genres, cred, bg, flt, af, gt>>

\* checkIfTracksAreStillLiked(trackIds.map(track => track.track_id), id): the
\* Spotify ids of the tracks the upstream no longer holds as saved; with none,
\* deleteIfNotLiked returns the rows it was given
DnlCheck(c, ok) ==
    /\ lk.pc = "run"
    /\ lk.calls[c].pc = "dnlCheck"
    /\ LET r == lk.calls[c]
           tracksToRemove == {Sid(t) : t \in TracksIn(r.trackIds) \ SavedTracks(lk.saved)}
       IN lk' = [lk EXCEPT !.calls[c] =
                   IF ~ok THEN [r EXCEPT !.pc = "done", !.result = "GatewayError"]
                   ELSE IF tracksToRemove = {}
                   THEN [r EXCEPT !.pc = "done", !.result = "ok", !.ret = TracksIn(r.trackIds)]
                   ELSE [r EXCEPT !.pc = "dnlDelete", !.remove = tracksToRemove]]
    /\ LkUnchanged

\* db('liked_tracks').whereIn('track_id', tracksToRemove).del(): the integer
\* column liked_tracks.track_id is compared with the numbers of the strings
WhereInDel(table, user, tracksToRemove) ==
    {r \in table : r.track \notin {ToNumber(str) : str \in tracksToRemove}}

\* the delete: in strict SQL mode the statement fails on the conversion of a
\* string to a number; otherwise the rows that match are gone
DnlDelete(c) ==
    /\ lk.pc = "run"
    /\ lk.calls[c].pc = "dnlDelete"
    /\ LET r == lk.calls[c]
       IN lk' = IF lk.strict
                THEN [lk EXCEPT !.calls[c] = [r EXCEPT !.pc = "done", !.result = "DbError"]]
                ELSE [lk EXCEPT !.table = WhereInDel(lk.table, r.user, r.remove),
                                !.calls[c].pc = "dnlRefetch"]
    /\ LkUnchanged

\* the rows of the month are read again, through inner joins with tracks,
\* artists and genres
DnlRefetch(c) ==
    /\ lk.pc = "run"
    /\ lk.calls[c].pc = "dnlRefetch"
    /\ LET r == lk.calls[c]
       IN lk' = [lk EXCEPT !.calls[c] =
                   [r EXCEPT !.pc = "done", !.result = "ok",
                             !.ret = {t \in TracksIn(RowsOf(lk.table, r.user, r.month)) :
                                         HasGenre(t)}]]
    /\ LkUnchanged

DnlNext ==
    \/ \E ok \in BOOLEAN : DnlCheck("c1", ok)
    \/ DnlDelete("c1")
    \/ DnlRefetch("c1")

DnlSpec == DnlInit /\ [][DnlNext]_vars

\* ---------------------------------------------------------------------------
\* findLikedFromMonth(id, month, year) with the liked_tracks table (part_003),
\* without genre: calls of user u1, one after the other or concurrently, and
\* u1 liking further tracks between the calls.  Audio features, artists and
\* genres of a page are left out; every awaited query is a step.

\* the saved tracks of u1, newest first: at most MaxSaved tracks, each added on
\* the first day of a month
SavedInits ==
    UNION {{l \in [1..n -> [track : {1, 2}, at : {MidMonth(m) : m \in Months}]] :
               \A i, k \in 1..n : i < k => (l[i].at >= l[k].at /\ l[i].track # l[k].track)} :
           n \in 0..MaxSaved}

LikedInit ==
    /\ LkInitGateway
    /\ \E saved \in SavedInits :
          lk = [pc |-> "run", table |-> {}, table0 |-> {}, nextId |-> 1, strict |-> FALSE,
                likes |-> 0, saved |-> saved, calls |-> [c \in Calls |-> LikedCall]]

Running(c) == lk.calls[c].pc \notin {"idle", "done"}

\* u1 likes a further track, while no call is under way: it is the newest
LkLike(t, month) ==
    /\ lk.pc = "run"
    /\ \A c \in Calls : ~Running(c)
    /\ lk.likes < MaxLikes
    /\ t \notin SavedTracks(lk.saved)
    /\ lk.saved # <<>> => MidMonth(month) >= lk.saved[1].at
    /\ lk' = [lk EXCEPT !.likes = @ + 1,
                        !.saved = <<[track |-> t, at |-> MidMonth(month)]>> \o @]
    /\ LkUnchanged

\* findLikedFromMonth(id, month, year) is called; the users row is read
FlmStart(c, month) ==
    /\ lk.pc = "run"
    /\ lk.calls[c].pc = "idle"
    /\ LET others == {d \in Calls \ {c} : Running(d)}
       IN lk' = [lk EXCEPT !.calls =
                   [d \in Calls |->
                      IF d = c
                      THEN [lk.calls[c] EXCEPT !.pc = "select", !.month = month,
                                               !.savedAtCall = lk.saved,
                                               !.alone = others = {}]
                      ELSE IF d \in others THEN [lk.calls[d] EXCEPT !.alone = FALSE]
                      ELSE lk.calls[d]]]
    /\ LkUnchanged

\* the rows of the month: if (likedTracks.length > 0) return deleteIfNotLiked(...)
FlmSelect(c) ==
    /\ lk.pc = "run"
    /\ lk.calls[c].pc = "select"
    /\ LET r == lk.calls[c]
           likedTracks == RowsOf(lk.table, r.user, r.month)
       IN lk' = [lk EXCEPT !.calls[c] =
                   IF likedTracks # {}
                   THEN [r EXCEPT !.pc = "dnlCheck", !.trackIds = likedTracks]
                   ELSE [r EXCEPT !.pc = "offset"]]
    /\ LkUnchanged

\* calculateOffset(earliestAddedAt, userId): the rows of the user added later
CalculateOffset(table, user, at) == Cardinality({r \in table : r.user = user /\ r.at > at})

\* the earliest row of the user and the offset the scan starts from (every
\* stored added-at lies before the current date)
FlmOffset(c) ==
    /\ lk.pc = "run"
    /\ lk.calls[c].pc = "offset"
    /\ LET r == lk.calls[c]
           mine == {x \in lk.table : x.user = r.user}
           earliest == CHOOSE x \in mine : \A y \in mine : x.at <= y.at
           offset == IF mine = {} THEN 0
                     ELSE IF earliest.at < StartDate(r.month) THEN 0
                     ELSE CalculateOffset(lk.table, r.user, earliest.at)
       IN lk' = [lk EXCEPT !.calls[c] = [r EXCEPT !.pc = "test", !.offset = offset]]
    /\ LkUnchanged

\* while (likedTracks.length < total) { ... } return likedTracks
FlmTest(c) ==
    /\ lk.pc = "run"
    /\ lk.calls[c].pc = "test"
    /\ LET r == lk.calls[c]
       IN lk' = [lk EXCEPT !.calls[c] =
                   IF Len(r.likedTracks) < r.total
                   THEN [r EXCEPT !.pc = "page"]
                   ELSE [r EXCEPT !.pc = "done", !.result = "ok",
                                  !.ret = {r.likedTracks[k] : k \in 1..Len(r.likedTracks)}]]
    /\ LkUnchanged

\* the page of getMySavedTracks({limit, offset}); total; offset += limit; the
\* date of songs[0] (a TypeError without songs[0]) and the break
FlmPage(c, ok) ==
    /\ lk.pc = "run"
    /\ lk.calls[c].pc = "page"
    /\ LET r == lk.calls[c]
           songs == Slice(lk.saved, r.offset, r.offset + MAX)
           q == [r EXCEPT !.songs = songs, !.total = Len(lk.saved), !.offset = @ + MAX, !.j = 1]
       IN lk' = [lk EXCEPT !.calls[c] =
                   IF ~ok THEN [r EXCEPT !.pc = "done", !.result = "GatewayError"]
                   ELSE IF songs = <<>> THEN [q EXCEPT !.pc = "done", !.result = "TypeError"]
                   ELSE IF songs[1].at < StartDate(r.month)
                   THEN [q EXCEPT !.pc = "done", !.result = "ok",
                                  !.ret = {r.likedTracks[k] : k \in 1..Len(r.likedTracks)}]
                   ELSE [q EXCEPT !.pc = "exists"]]
    /\ LkUnchanged

\* likedTracks.push(...songs.filter(song => addedAt >= targetStartDate &&
\* addedAt <= targetEndDate)), as the tracks of the songs
InWindow(songs, month) ==
    LET kept == SelectSeq(songs, LAMBDA song : song.at >= StartDate(month) /\ song.at <= EndDate(month))
    IN [k \in 1..Len(kept) |-> kept[k].track]

\* the next song of the page, or after the last one the filter and the loop test
NextSong(r) ==
    IF r.j < Len(r.songs)
    THEN [r EXCEPT !.pc = "exists", !.j = @ + 1]
    ELSE [r EXCEPT !.pc = "test", !.likedTracks = @ \o InWindow(r.songs, r.month)]

\* existingLikedTrack = await db('liked_tracks').where({user_id, track_id}).first()
FlmExists(c) ==
    /\ lk.pc = "run"
    /\ lk.calls[c].pc = "exists"
    /\ LET r == lk.calls[c]
           song == r.songs[r.j]
           existingLikedTrack == \E x \in lk.table : x.user = r.user /\ x.track = song.track
       IN lk' = [lk EXCEPT !.calls[c] =
                   IF existingLikedTrack THEN NextSong(r) ELSE [r EXCEPT !.pc = "insert"]]
    /\ LkUnchanged

\* if (!existingLikedTrack) await db('liked_tracks').insert({...})
FlmInsert(c) ==
    /\ lk.pc = "run"
    /\ lk.calls[c].pc = "insert"
    /\ LET r == lk.calls[c]
           song == r.songs[r.j]
       IN lk' = [lk EXCEPT !.table = @ \cup {[id |-> lk.nextId, user |-> r.user,
                                               track |-> song.track, at |-> song.at,
                                               month |-> MonthOf(song.at)]},
                           !.nextId = @ + 1,
                           !.calls[c] = NextSong(r)]
    /\ LkUnchanged

LikedNext ==
    \/ \E t \in LkTracks, month \in Months : LkLike(t, month)
    \/ \E c \in Calls, month \in Months :
          (c = "c1" \/ lk.calls["c1"].pc # "idle") /\ FlmStart(c, month)
    \/ \E c \in Calls : FlmSelect(c)
    \/ \E c \in Calls, ok \in BOOLEAN : DnlCheck(c, ok)
    \/ \E c \in Calls : FlmOffset(c)
    \/ \E c \in Calls : FlmTest(c)
    \/ \E c \in Calls, ok \in BOOLEAN : FlmPage(c, ok)
    \/ \E c \in Calls : FlmExists(c)
    \/ \E c \in Calls : FlmInsert(c)

LikedSpec == LikedInit /\ [][LikedNext]_vars

\* ============================================================= properties

Pair(row) == <<row.at, row.rt>>

\* no refresh of any call is under way
RefreshesSettled ==
    \A c \in Calls :
        calls[c].pc \notin {"proExchange", "proUpdate", "getRT", "htrExchange", "htrUpdate"}

\* C1: an operation that has failed twice with a non-429 error is not invoked
\* again: after the second failure the call makes no further upstream invocation
\* (429 answers aside, a call makes at most 2 invocations once 2 have failed).
C1_NoThirdInvocation ==
    \A c \in Calls :
        hist[c].fails >= 2 => hist[c].ops - hist[c].n429 <= 2

\* C2: at most one wait timer exists per rate-limit episode: no two timers
\* created on a 429 are pending at the same time.
C2_SingleTimer == Cardinality(PendingTimers) <= 1

\* C3: a call that passed the rate-limit check while the retry-after of a wait
\* started by a 429 was still running invokes no upstream operation before
\* that retry-after has passed.
C3_NoCallDuringWait == ~obs.storm

\* C4: a call whose operation was answered 429 with retry-after T does not
\* invoke its operation again before T seconds have passed since that answer.
C4_RetryAfterRespected == ~obs.early

C4_Witness ==
    \E c \in Calls :
        /\ hist[c].n429 >= 1
        /\ calls[c].result = "ok"
        /\ hist[c].notBefore = StartTime + 2

\* C6: the stored (access_token, refresh_token) pair of a user is at all times,
\* hence also once every refresh has settled, the original pair or the pair
\* that one single answer of the token endpoint produced; never the access
\* token of one answer with the refresh token of another.
C6_PairFromOneResponse ==
    \A u \in Users :
        db[u] # NoRow =>
            \/ Pair(db[u]) = <<0, 0>>
            \/ \E i \in 1..Len(issued) : issued[i] # NoTok /\ Pair(issued[i]) = Pair(db[u])

C6_Witness ==
    /\ RefreshesSettled
    /\ obs.proWrites >= 1
    /\ obs.htrWrites >= 1
    /\ Len(issued) = 2
    /\ \A i \in 1..2 : issued[i] # NoTok
    /\ Pair(db["u1"]) = Pair(issued[2])

\* C7: when two refreshes on the failure path have both written, the stored
\* pair is the one of the write issued last.
C7_LastWriteWins ==
    (RefreshesSettled /\ obs.htrWrites >= 2 /\ obs.proWrites = 0)
        => Pair(db["u1"]) = obs.lastWrite

\* C8: a call for a user without a row invokes no operation and makes no refresh
\* exchange (so it never re-enters the gateway), and ends with the error
\* 'User not found in the database.'.
C8_UserNotFound ==
    \A c \in Calls :
        (calls[c].pc # "idle" /\ db[calls[c].uid] = NoRow) =>
            /\ hist[c].ops = 0
            /\ hist[c].exch = 0
            /\ calls[c].pc = "done" => calls[c].result = "UserNotFound"

C8_Witness ==
    \E c \in Calls :
        /\ calls[c].uid = "u2"
        /\ calls[c].pc = "done"
        /\ calls[c].result = "UserNotFound"

\* C9: after a refresh exchange of a call has failed, that call makes no further
\* refresh exchange and does not invoke its operation.
C9_FailedExchangeIsFatal ==
    \A c \in Calls :
        hist[c].xfail # <<>> =>
            /\ hist[c].exch = hist[c].xfail[1]
            /\ hist[c].ops = hist[c].xfail[2]

\* C10: in the caching variant an operation with side effects is never written
\* to the cache, and a call of it that returns a result has executed it upstream
\* and was not served from the cache.
C10_SideEffectsBypassCache ==
    /\ \A k \in Keys :
          cache[k] # NoEntry => JSONParse(cache[k].val).op \notin SideEffects
    /\ \A c \in Calls :
          (calls[c].op \in SideEffects /\ calls[c].pc = "done" /\ calls[c].result = "ok")
              => (~hist[c].fromCache /\ hist[c].ops >= 1)

\* C5: against an upstream that answers 429 finitely often and then succeeds,
\* every call that was started ends with the successful result, and no call
\* ever ends with the 429 error.
C5_RateLimitRecovered ==
    /\ [](\A c \in Calls : calls[c].result # "429")
    /\ \A c \in Calls :
          (calls[c].pc # "idle") ~> (calls[c].pc = "done" /\ calls[c].result = "ok")

C5_Witness ==
    \E c \in Calls :
        /\ hist[c].n429 = 2
        /\ calls[c].pc = "done"
        /\ calls[c].result = "ok"

\* C11: in the caching variant a call that is served from the cache returns a
\* result that was stored by the same operation for the same user: calls of
\* different operations never meet on one cache key.
C11_CacheHitSameOperation ==
    \A c \in Calls :
        (hist[c].fromCache /\ calls[c].pc = "done")
            => calls[c].val = Response(calls[c].uid, calls[c].op)

\* C12: a getUser call that finds the profile entry before its expiry returns
\* the stored value and makes no upstream call and no token exchange; a call that
\* finds no entry, or one that has expired, is a miss, and when the upstream
\* answers its first request with success it has made exactly one upstream call
\* and has stored the fresh profile to expire 3600 s after the store.
C12_ProfileCache ==
    \A c \in Calls :
        LET g == userCalls[c]
        IN g.pc # "idle" =>
            /\ g.hit <=> (g.seen # NoEntry /\ g.readAt < g.seen.exp)
            /\ g.hit => /\ g.pc = "done"
                        /\ g.seen.val = JSONStringify(g.ret)
                        /\ hist[c].ops = 0
                        /\ hist[c].exch = 0
            /\ (g.pc = "done" /\ ~g.hit /\ g.result = "ok"
                    /\ hist[c].fails = 0 /\ hist[c].n429 = 0)
                  => /\ hist[c].ops = 1
                     /\ g.stored = [val |-> JSONStringify(Body(Response(g.uid, GetMe))),
                                    exp |-> g.storedAt + 3600]

C12_Witness ==
    \E c \in Calls :
        LET g == userCalls[c]
        IN /\ g.seen # NoEntry
           /\ g.readAt >= g.seen.exp
           /\ g.pc = "done"
           /\ g.result = "ok"
           /\ hist[c].ops = 1

\* ceil(n / d)
CeilDiv(n, d) == (n + d - 1) \div d

\* the calendar month: from 00:00 of its first day up to 00:00 of the first day
\* of the next month
InMonth(t, month) == Date(month - 1, 1) <= t /\ t < Date(month, 1)

\* C13: a scan of a finite saved-track list that is ordered newest first makes
\* at most ceil(total / limit) page fetches (one fetch for the empty list, whose
\* total is not known before).
C13_FetchBound ==
    scan.pc # "idle" =>
        scan.fetches <= IF scan.list = <<>> THEN 1 ELSE CeilDiv(Len(scan.list), scan.limit)

\* the saved tracks of the list whose added-at lies in the month, in list order
FromMonth(list, month) ==
    SelectSeq([i \in 1..Len(list) |-> i], LAMBDA i : InMonth(list[i], month))

\* C14: the scan without genre and without the liked_tracks table, when it
\* returns, returns exactly the saved tracks whose added-at lies in the target
\* month, in the order of the list.
C14_ExactlyTheMonth ==
    (scan.pc = "done" /\ scan.variant = "plain" /\ scan.result = "ok")
        => scan.likedSongs = FromMonth(scan.list, scan.month)

\* C15: once a fetched page has had no items, the scan is over without an error
\* and has fetched no further page: it has returned what it had collected.
C15_EmptyPageExhausts ==
    scan.sawEmpty => (scan.pc = "done" /\ scan.result = "ok")

\* C16: with n URIs and batch size MAX the k-th add call carries the URIs at
\* positions (k-1)*MAX+1 .. min(k*MAX, n), in order; the playlist is fetched at
\* most once and only when ceil(n / MAX) add calls have been issued and have all
\* completed; a call that returns has fetched once and has sent every URI once.
C16_Batches ==
    mat.pc # "idle" =>
        LET n == Len(mat.songUris)
        IN /\ \A k \in 1..Len(mat.adds) :
                  mat.adds[k] = [j \in 1..((IF k * MAX < n THEN k * MAX ELSE n) - (k - 1) * MAX)
                                    |-> mat.songUris[(k - 1) * MAX + j]]
           /\ Len(mat.adds) <= CeilDiv(n, MAX)
           /\ mat.fetches <= 1
           /\ mat.fetches = 1 =>
                  (Len(mat.adds) = CeilDiv(n, MAX) /\ mat.completed = Len(mat.adds))
           /\ (mat.pc = "done" /\ mat.result = "ok") =>
                  (mat.fetches = 1 /\ mat.playlist = mat.songUris)

C16_Witness ==
    /\ mat.pc = "done"
    /\ mat.result = "ok"
    /\ Len(mat.songUris) = 2 * MAX + 1
    /\ Len(mat.adds) = 3
    /\ Len(mat.adds[3]) = 1

\* the concatenation of the first k batches
RECURSIVE Concat(_, _)
Concat(batches, k) == IF k = 0 THEN <<>> ELSE Concat(batches, k - 1) \o batches[k]

\* C17: when the gateway call of a batch fails, the call is over with that
\* error, the failed batch is the last one issued, the playlist is not fetched,
\* and the playlist keeps the batches added before the failure.
C17_BatchFailureAborts ==
    mat.failedAt # 0 =>
        /\ mat.pc = "done"
        /\ mat.result = "GatewayError"
        /\ Len(mat.adds) = mat.failedAt
        /\ mat.fetches = 0
        /\ mat.playlist = Concat(mat.adds, mat.failedAt - 1)

C17_Witness ==
    /\ mat.failedAt = 2
    /\ mat.pc = "done"
    /\ Len(mat.playlist) = MAX

\* every value of the options object is falsy (the empty object included)
AllFalsy(options) ==
    \A i \in 1..Len(OptionKeys) :
        options[OptionKeys[i]] = Absent \/ ~Truthy(options[OptionKeys[i]])

\* C18: a build whose options are all falsy makes no call of the Spotify
\* service (no credential lookup, no cache access, no upstream request) and
\* returns {error: 'No options selected.'}.
C18_NoOptionsNoCalls ==
    (rec.pc # "idle" /\ AllFalsy(rec.options)) =>
        /\ rec.upstream = 0
        /\ mat = NoMat
        /\ rec.pc \in {"entry", "done"}
        /\ rec.pc = "done" =>
              (rec.outcome = "returned" /\ rec.result = "No options selected.")

C18_Witness ==
    /\ rec.pc = "done"
    /\ rec.options["mostPlayed"] = "false"
    /\ rec.options["genre"] = "null"
    /\ AllFalsy(rec.options)

\* C19: a build in whose options none of the four conditions is truthy and no
\* genre is supplied returns the 'No options selected.' error, whatever the
\* auxiliary options are.
C19_NoConditionNoGenre ==
    (rec.pc = "done"
        /\ (\A c \in Conditions : rec.options[c] = Absent \/ ~Truthy(rec.options[c]))
        /\ (rec.options["genre"] = Absent \/ ~Truthy(rec.options["genre"])))
      => (rec.outcome = "returned" /\ rec.result = "No options selected.")

\* C20: a build whose candidate list is empty after the last selected
\* condition has been fetched returns {error: 'No songs found.'} as a value and
\* has sent no recommendation request, created no playlist and added no track.
C20_NoSongsFound ==
    (rec.pc \notin {"idle", "entry"} /\ HasValidOptions(rec.options)
        /\ rec.k > Len(rec.entries) /\ rec.songIds = <<>>) =>
        /\ rec.pc \in {"fetch", "done"}
        /\ rec.recRequests = 0
        /\ rec.playlists = 0
        /\ mat = NoMat
        /\ rec.pc = "done" => (rec.outcome = "returned" /\ rec.result = "No songs found.")

C20_Witness ==
    /\ rec.pc = "done"
    /\ rec.result = "No songs found."
    /\ rec.upstream = 2
    /\ rec.failed # {}

\* the conditions of the options object that #fetchTracksBasedOnConditions fetches
Selected(options) == {c \in Conditions : options[c] # Absent /\ Truthy(options[c])}

\* C21: a failed candidate fetch of one selected condition does not abort the
\* build: the loop runs to its end, the failed condition contributes no id,
\* every selected condition has been fetched, every condition that answered
\* with ids has them in the candidate list, and the build ends with
\* 'No songs found.' only if the candidate list is empty.
C21_BestEffortFetch ==
    (rec.pc # "idle" /\ rec.failed # {}) =>
        /\ \A i \in 1..Len(rec.songIds) : rec.songIds[i] \notin rec.failed
        /\ rec.pc = "fetch" \/ rec.k > Len(rec.entries)
        /\ rec.k > Len(rec.entries) =>
              /\ rec.asked = Selected(rec.options)
              /\ {rec.songIds[i] : i \in 1..Len(rec.songIds)} = rec.given
              /\ rec.given \subseteq rec.asked \ rec.failed
        /\ (rec.pc = "done" /\ rec.result = "No songs found.") => rec.songIds = <<>>
        /\ (rec.pc = "done" /\ rec.songIds # <<>>) => rec.recRequests = 1

C21_Witness ==
    /\ rec.pc = "done"
    /\ rec.result = "playlist"
    /\ rec.failed = {"mostPlayed"}
    /\ rec.given = {"recentlyPlayed", "likedTracks"}

\* C22: when currentlyPlaying is requested and has given its track id, and
\* track seeds are used, the seed_tracks of the recommendation request are at
\* most 3 ids and contain the currently-playing track id.
C22_ForcedSeed ==
    (rec.recRequests >= 1 /\ rec.params.seeded /\ "currentlyPlaying" \in rec.given) =>
        /\ Cardinality(rec.params.seed_tracks) <= SeedCount
        /\ "currentlyPlaying" \in rec.params.seed_tracks

\* C23: when useAudioFeatures is set, the parameters of the recommendation
\* request have min_<feature> and max_<feature> for each of the nine audio
\* features, and the request is issued only once the audio features of the
\* candidates have been fetched.
C23_FeatureBounds ==
    (rec.recRequests >= 1 /\ rec.options["useAudioFeatures"] = "true") =>
        /\ rec.params.bounds = FeatureBounds
        /\ rec.audio = "resolved"

\* the requests of a build that has created its playlist, in their order: one
\* fetch for each selected condition, the recommendation request and its
\* answer, the playlist creation and its answer
BuildOrder(r) ==
    [i \in 1..Cardinality(r.asked) |-> "fetchTracks"]
        \o <<"getRecommendations", "recommendations", "createPlaylist", "playlist">>

\* C24: a build that returns a playlist has sent exactly one recommendation
\* request and exactly one playlist creation (public: false, collaborative:
\* false), in the order candidate fetches, recommendation request, playlist
\* creation, track insertions, playlist fetch; no playlist is created unless
\* the recommendation request has succeeded, no track is inserted before the
\* playlist exists, and the playlist is fetched after the last insertion.
C24_BuildOrder ==
    /\ (rec.pc = "done" /\ rec.outcome = "returned" /\ rec.result = "playlist") =>
          /\ rec.recRequests = 1
          /\ rec.playlists = 1
          /\ rec.created = <<[public |-> FALSE, collaborative |-> FALSE]>>
          /\ SelectSeq(rec.log, LAMBDA e : e # "getAudioFeatures") = BuildOrder(rec)
          /\ mat.completed = Len(mat.adds)
          /\ mat.fetches = 1
    /\ (rec.pc # "idle" /\ rec.playlists >= 1) =>
          \E i \in 1..Len(rec.log) : rec.log[i] = "recommendations"
    /\ (rec.pc # "idle" /\ mat # NoMat) =>
          \E i \in 1..Len(rec.log) : rec.log[i] = "playlist"
    /\ (rec.pc # "idle" /\ mat # NoMat /\ mat.fetches >= 1) =>
          (mat.completed = Len(mat.adds) /\ mat.i >= Len(mat.songUris))

C24_Witness ==
    /\ rec.pc = "done"
    /\ rec.result = "playlist"
    /\ Cardinality(rec.asked) = 2
    /\ Len(mat.adds) = 2

\* C25: getTracks with a genre ends on every finite source: every such call
\* comes to its end, by a return or by an error.
C25_GetTracksTerminates == trackCall.genre => <>(trackCall.pc = "done")

\* C26: when getArtistGenres returns, every genre list it has resolved from the
\* upstream is in the cache and in the artists tables, and no artist whose
\* genres an earlier call resolved from the upstream is asked for upstream again.
C26_WrittenBack ==
    /\ (genres.pc = "done" /\ genres.outcome = "returned") =>
          \A a \in genres.fromUpstream :
              /\ RedisGet(ArtistKey(a)) # NoEntry
              /\ genres.table[a] = UpstreamGenres(a)
    /\ genres.pc # "idle" => genres.again = {}

\* C27: whenever authorizationCodeGrant(code, id) has returned {api_token,
\* userId} (and the store itself has not failed), the api_token stored for id
\* is the one returned, also when id had a row at grant time.
C27_ReturnedTokenIsStored ==
    (cred.pc = "done" /\ cred.op = "grant" /\ cred.outcome = "returned" /\ ~cred.fault) =>
        (db[cred.id] # NoRow /\ db[cred.id].api = cred.ret)

\* C29: when the insert of authorizationCodeGrant or the delete of deleteUser
\* has failed, the call ends with an error: it never returns normally after a
\* failed store operation.
C29_StoreFailurePropagates ==
    (cred.pc = "done" /\ cred.storeFailed) => cred.outcome = "thrown"

\* C28: a token refresh, proactive or on the failure path, leaves the
\* api_token of every user as it is: the write of a refresh inserts and deletes
\* no row, changes no row but that of the user of the call, and in that row
\* nothing but the access token, the refresh token and the issued-at time.
C28_RefreshKeepsApiToken ==
    [][\A c \in CredCalls :
          (ProUpdate(c) \/ HtrUpdate(c)) =>
              \A u \in Users :
                  /\ u # calls[c].uid => db'[u] = db[u]
                  /\ db[u] = NoRow <=> db'[u] = NoRow
                  /\ db[u] # NoRow => db'[u].api = db[u].api]_vars

C28_Witness ==
    /\ obs.proWrites + obs.htrWrites = 2
    /\ \A u \in Users : db[u] # NoRow
    /\ \E u \in Users : db[u].api # Sha256(u, db[u].at)
    /\ db["u2"].at # db["u2"].rt

\* C30: in addTracksToPlaylistInBackground and addFilteredTracksToPlaylist,
\* once a track insertion or a fetch of a page of saved tracks has failed, no
\* further insertion and no further page fetch is sent, and the function ends
\* with an error instead of returning normally.
C30_BackgroundFailureAborts ==
    (bg.pc # "idle" /\ bg.failed) =>
        /\ bg.late = 0
        /\ bg.pc = "done" => bg.outcome = "thrown"

\* the access tokens that are the user's own when a call invokes its operation:
\* the one of the row the call has read, the one the call itself was issued by
\* the token endpoint, and the one stored for the user at that moment
OwnTokens(c) ==
    {calls[c].usr.at, db[calls[c].uid].at}
        \cup (IF calls[c].tok = NoTok THEN {} ELSE {calls[c].tok.at})

\* the step of call c that invokes its operation: return await apiCall()
Invokes(c) == \E o \in Outcomes, T \in RetryAfters : Operation(c, o, T)

\* C34: whenever a call for user U invokes its operation, the access token of
\* the shared client is a token of U (the stored one, the one the call read, or
\* the one just refreshed for U), never the token of another user; on the first
\* attempt and on the retry after a failure-path refresh.
C34_OwnTokenAtInvocation ==
    [][\A c \in Calls : Invokes(c) => client.at \in OwnTokens(c)]_vars

\* C31: at every invocation of the operation: when the lookup of this pass
\* found the token expired, the call has made exactly one refresh exchange and
\* one row update since that lookup, the row holds the returned pair (the
\* refresh token being the returned one or the old one) with the issued-at of
\* now, and the client holds the new access token; when the lookup found it
\* fresh, the call has made no exchange and no update since, and the client
\* holds the access token the row had.  The update of an expired pass writes
\* the returned pair and the time of the write into the user's row.
C31_ProactiveRefresh ==
    [][\A c \in Calls :
        /\ (ProUpdate(c) /\ db[calls[c].uid] # NoRow) =>
              /\ Pair(db'[calls[c].uid]) = Pair(calls[c].tok)
              /\ db'[calls[c].uid].upd = now
        /\ Invokes(c) =>
              LET r == calls[c]
                  h == hist[c]
              IN IF h.expired
                 THEN /\ h.passExch = 1
                      /\ h.passWrites = 1
                      /\ r.tok.rt \in {r.tok.at, r.usr.rt}
                      /\ r.tok.at \notin {r.usr.at, -1}
                      /\ client.at = r.tok.at
                 ELSE /\ h.passExch = 0
                      /\ h.passWrites = 0
                      /\ client.at = r.usr.at]_vars

\* C32: once filterTracksByGenre has handled every song, the songs it has kept
\* are exactly those whose primary (first) artist has the requested genre in
\* its genre list, in the order of the input (runs in which a genre lookup
\* failed are left aside).
C32_PrimaryArtistGenre ==
    (flt.pc = "done" /\ flt.failed = {}) =>
        flt.filteredTracks =
            SelectSeq([i \in 1..Len(flt.songs) |-> i],
                      LAMBDA i : Includes(flt.upstream[flt.songs[i][1]], flt.genre))

\* C33: getAudioFeatures never makes more than ceil(n / limit) gateway calls,
\* each batch has at most `limit` ids, the batches sent are the list cut in
\* order; and when it returns it has made exactly ceil(n / limit) calls and
\* returns the concatenation of the responses in batch order.
C33_FeatureBatches ==
    /\ Len(af.batches) <= CeilDiv(af.total, FeatureLimit)
    /\ \A k \in 1..Len(af.batches) :
          /\ Len(af.batches[k]) <= FeatureLimit
          /\ af.batches[k] =
                Slice(af.tracksIds, (k - 1) * FeatureLimit, k * FeatureLimit)
    /\ (af.pc = "done" /\ af.outcome = "ok") =>
          /\ Len(af.batches) = CeilDiv(af.total, FeatureLimit)
          /\ af.audioFeatures = Concat(af.responses, Len(af.responses))

\* C35: a getTracks call that returns a value returns, and has cached under
\* its own key, tracks that were fetched for its own request: not the tracks
\* of another call's request, and not the empty array or the undefined body
\* left by another call's initialisation of this.tracks / this.filteredTracks.
C35_OwnTracks ==
    gt.pc = "run" =>
        \A c \in Calls :
            /\ gt.redis[c] # Undefined => gt.redis[c].owner = c
            /\ (gt.calls[c].pc = "done" /\ gt.calls[c].outcome = "ok") =>
                  gt.calls[c].ret.owner = c

\* a time of day after 00:00 on the last day of the month (half a day after it)
LastDayLate(month) == Date(month, 0) + 1

\* C37: a month scan that returns has in its result every saved track that was
\* added on the last day of the target month after 00:00, and no track that
\* was added at 00:00 on the first day of the next month.
C37_WholeLastDay ==
    (scan.pc = "done" /\ scan.result = "ok") =>
        \A i \in 1..Len(scan.list) :
            /\ scan.list[i] = LastDayLate(scan.month) =>
                  \E k \in 1..Len(scan.likedSongs) : scan.likedSongs[k] = i
            /\ scan.list[i] = StartDate(scan.month + 1) =>
                  \A k \in 1..Len(scan.likedSongs) : scan.likedSongs[k] # i

\* C39: deleteIfNotLiked called for user u1 removes from liked_tracks only rows
\* of u1 whose track u1 no longer likes; every row of another user stays.
C39_DeletesOwnRowsOnly ==
    lk.calls["c1"].pc \in {"dnlCheck", "dnlDelete", "dnlRefetch", "done"} =>
        \A r \in lk.table0 \ lk.table :
            r.user = "u1" /\ r.track \notin SavedTracks(lk.saved)

\* the tracks of a saved list that were added in the month
LikedInMonth(saved, month) ==
    {saved[k].track : k \in {i \in 1..Len(saved) : InMonth(saved[i].at, month)}}

\* C36: a database-backed findLikedFromMonth call that ran with no other call
\* beside it and returns, returns exactly the tracks the user had liked when
\* it was called and whose added-at lies in the requested month.
C36_LikedAtCallTime ==
    lk.pc = "run" =>
        \A c \in Calls :
            (lk.calls[c].pc = "done" /\ lk.calls[c].result = "ok" /\ lk.calls[c].alone) =>
                lk.calls[c].ret = LikedInMonth(lk.calls[c].savedAtCall, lk.calls[c].month)

\* C38: liked_tracks holds at most one row per (user, track), whatever scans
\* have run concurrently.
C38_OneRowPerTrack ==
    lk.pc = "run" =>
        \A r1, r2 \in lk.table :
            (r1.user = r2.user /\ r1.track = r2.track) => r1 = r2

\* ---------------------------------------------------------------------------
\* getUser beside deleteUser: deleteUser removes the row of users and nothing
\* else; the profile that getUser stored under user:<id> stays in redis until
\* its 3600 seconds are over.

\* deleteUser(id) has completed and the row of id is gone
AfterDelete(id) == cred.pc = "done" /\ cred.op = "delete" /\ cred.id = id /\ db[id] = NoRow

\* c1 is a getUser("u1") made before the delete has completed, c2 one made
\* after it
DeletedCalled(c) ==
    \/ c = "c1" /\ cred.pc # "done"
    \/ c = "c2" /\ AfterDelete("u1")

DeletedNext ==
    \/ \E c \in Calls : DeletedCalled(c) /\ GetUser(c, "u1")
    \/ \E c \in Calls : UserFirst(c)
    \/ \E c \in Calls : UserSetex(c)
    \/ \E c \in Calls : UserCatch(c)
    \/ \E c \in Calls, ok \in BOOLEAN, rotated \in BOOLEAN : UserExchange(c, ok, rotated)
    \/ \E c \in Calls : UserUpdate(c)
    \/ \E c \in Calls : UserRethrow(c)
    \/ \E c \in Calls : Lookup(c)
    \/ \E c \in Calls, ok \in BOOLEAN, rotated \in BOOLEAN : ProExchange(c, ok, rotated)
    \/ \E c \in Calls : ProUpdate(c)
    \/ \E c \in Calls, o \in {"ok", "err"} : Operation(c, o, 1)
    \/ \E c \in Calls : GetRefreshToken(c)
    \/ \E c \in Calls, ok \in BOOLEAN, rotated \in BOOLEAN : HtrExchange(c, ok, rotated)
    \/ \E c \in Calls : HtrUpdate(c)
    \/ \E t \in Instants : Elapse(t)
    \/ DeleteUser("u1")
    \/ \E fault \in BOOLEAN : UserDeleted(fault)

DeletedSpec == CredInit /\ [][DeletedNext]_vars

\* C40: a getUser(id) called after deleteUser(id) has completed and removed the
\* row reports that the user is not found and returns no profile, also when a
\* getUser(id) had succeeded less than an hour before the deletion.
C40_DeletedUserNotFound ==
    userCalls["c2"].pc = "done" =>
        /\ userCalls["c2"].result = "UserNotFound"
        /\ userCalls["c2"].ret = Null

\* a getUser called after the delete, once the cached profile has expired or
\* when none had been stored, reports that the user is not found
DeletedMiss ==
    /\ userCalls["c2"].pc = "done"
    /\ userCalls["c2"].result = "UserNotFound"

====
